---------------------------- MODULE Spec2Model ----------------------------
(***************************************************************************)
(* Model of the EcoFlow BLE library (custom_components/ef_ble/eflib):      *)
(* the two frame codecs (Packet, EncPacket), the checksums, and the        *)
(* Connection object with its handshake continuation chain, its            *)
(* reconnection policy and its partial-frame buffer.                       *)
(*                                                                         *)
(* Bytes are the integers 0..255, byte strings are sequences of bytes.     *)
(* Python slices data[a:b] become Slice(data, a, b) with Python's          *)
(* clipping.  The cryptographic primitives of the external libraries       *)
(* (AES-CBC, MD5, ECDH) are modelled by small keyed functions that keep    *)
(* the properties the code relies on: AES-CBC is a length-preserving,      *)
(* chained, key- and IV-dependent bijection on whole blocks, PKCS#7        *)
(* padding is modelled exactly, ECDH is a commutative key agreement.       *)
(***************************************************************************)
EXTENDS Integers, Sequences, FiniteSets, TLC

(***************************************************************************)
(* Byte-string helpers                                                     *)
(***************************************************************************)
Min(a, b) == IF a < b THEN a ELSE b

\* Python data[a:b] for 0 <= a, 0 <= b (0-based, end exclusive, clipped).
Slice(data, a, b) == SubSeq(data, a + 1, Min(b, Len(data)))

\* Python data[a:]
SliceFrom(data, a) == SubSeq(data, a + 1, Len(data))

\* Python data.startswith(prefix)
StartsWith(data, prefix) ==
    /\ Len(data) >= Len(prefix)
    /\ SubSeq(data, 1, Len(prefix)) = prefix

\* struct.pack('<H', n)
PackH(n) == <<n % 256, (n \div 256) % 256>>

\* struct.unpack('<H', b)[0] for a 2-byte string b
UnpackH(b) == b[1] + 256 * b[2]

\* struct.pack('<L', n)
PackL(n) == <<n % 256, (n \div 256) % 256, (n \div 65536) % 256, (n \div 16777216) % 256>>

\* A struct.unpack('<L', b)[0] that reads the four bytes in the other order.
UnpackLBigEndian(b) == b[4] + 256 * b[3] + 65536 * b[2] + 16777216 * b[1]

\* struct.unpack('<L', b)[0] for a 4-byte string b
UnpackL(b) == b[1] + 256 * b[2] + 65536 * b[3] + 16777216 * b[4]

(***************************************************************************)
(* crc.py: CRC-8/CCITT and CRC-16/ARC                                      *)
(***************************************************************************)
RECURSIVE XorBits(_, _, _)
XorBits(a, b, n) ==
    IF n = 0 THEN 0
    ELSE ((a + b) % 2) + 2 * XorBits(a \div 2, b \div 2, n - 1)

\* XOR of two bytes, tabulated once.
Xor8 == [a \in 0..255 |-> [b \in 0..255 |-> XorBits(a, b, 8)]]

\* One byte through the reflected CRC-16 register with polynomial 0x8005
\* (reflected 0xA001): eight shift steps.
RECURSIVE Crc16Shift(_, _)
Crc16Shift(c, n) ==
    IF n = 0 THEN c
    ELSE LET h == c \div 2
         IN  Crc16Shift(IF c % 2 = 1
                        THEN h + 32768
                             + (IF (h \div 8192) % 2 = 1 THEN -8192 ELSE 8192)
                             + (IF h % 2 = 1 THEN -1 ELSE 1)
                        ELSE h, n - 1)

Crc16Table == [b \in 0..255 |-> Crc16Shift(b, 8)]

\* One byte through the CRC-8 register with polynomial 0x07 (not reflected).
RECURSIVE Crc8Shift(_, _)
Crc8Shift(c, n) ==
    IF n = 0 THEN c
    ELSE LET s == (2 * c) % 256
         IN  Crc8Shift(IF c >= 128
                       THEN s + 1
                            + (IF (s \div 2) % 2 = 1 THEN -2 ELSE 2)
                            + (IF (s \div 4) % 2 = 1 THEN -4 ELSE 4)
                       ELSE s, n - 1)

Crc8Table == [b \in 0..255 |-> Crc8Shift(b, 8)]

RECURSIVE Crc16From(_, _, _)
Crc16From(data, i, crc) ==
    IF i > Len(data) THEN crc
    ELSE LET t == Crc16Table[Xor8[crc % 256][data[i]]]
             n == (t \div 256) * 256 + Xor8[crc \div 256][t % 256]
         IN  IF n < 0 THEN 0 ELSE Crc16From(data, i + 1, n)

\* crc16(data): width 16, polynomial 0x8005, init 0, reflected in and out,
\* no final xor.
crc16(data) == Crc16From(data, 1, 0)

RECURSIVE Crc8From(_, _, _)
Crc8From(data, i, crc) ==
    IF i > Len(data) THEN crc
    ELSE LET n == Crc8Table[Xor8[crc][data[i]]]
         IN  IF n < 0 THEN 0 ELSE Crc8From(data, i + 1, n)

\* crc8(data): Crc8.CCITT
crc8(data) == Crc8From(data, 1, 0)

(***************************************************************************)
(* External cryptographic primitives (Crypto.Cipher.AES, Crypto.Util       *)
(* .Padding, hashlib.md5, ecdsa), as used by connection.py and             *)
(* encpacket.py.  Keys and IVs are 16-byte strings; an attribute that has  *)
(* not been assigned yet is the empty string.                              *)
(***************************************************************************)
BlockSize == 16

\* None, for EncPacket's optional enc_key and iv.
None == <<-1>>

\* Crypto.Util.Padding.pad(data, AES.block_size): PKCS#7.
pad(data) ==
    LET n == BlockSize - (Len(data) % BlockSize)
    IN  data \o [i \in 1..n |-> n]

\* An unpad that returns its input.
unpadNothing(data) == [ok |-> TRUE, data |-> data]

\* Crypto.Util.Padding.unpad(data, AES.block_size): raises ValueError on an
\* empty input, on a length that is no multiple of the block size and on a
\* wrong padding.
unpad(data) ==
    IF Len(data) = 0 \/ Len(data) % BlockSize # 0
    THEN [ok |-> FALSE, data |-> <<>>]
    ELSE LET n == data[Len(data)]
         IN  IF n < 1 \/ n > BlockSize
                \/ \E i \in (Len(data) - n + 1)..Len(data) : data[i] # n
             THEN [ok |-> FALSE, data |-> <<>>]
             ELSE [ok |-> TRUE, data |-> SubSeq(data, 1, Len(data) - n)]

\* AES.new(key, AES.MODE_CBC, iv).encrypt(data), for whole blocks: each
\* ciphertext block depends on the key, the plaintext block and the previous
\* ciphertext block (the IV for the first).
AesCbcEncrypt(key, iv, data) ==
    LET c[i \in 1..Len(data)] ==
            LET k == ((i - 1) % BlockSize) + 1
                prev == IF i <= BlockSize THEN iv[k] ELSE c[i - BlockSize]
            IN  (data[i] + key[k] + prev) % 256
    IN  [i \in 1..Len(data) |-> c[i]]

\* AES.new(key, AES.MODE_CBC, iv).decrypt(data), the inverse.
AesCbcDecrypt(key, iv, data) ==
    [i \in 1..Len(data) |->
        LET k == ((i - 1) % BlockSize) + 1
            prev == IF i <= BlockSize THEN iv[k] ELSE data[i - BlockSize]
        IN  (data[i] + 512 - key[k] - prev) % 256]

\* A usable AES-128 key or IV: 16 bytes.
IsKey(k) == Len(k) = BlockSize

RECURSIVE Md5Fold(_, _, _)
Md5Fold(data, i, h) ==
    IF i > Len(data) THEN h
    ELSE LET n == (h * 33 + data[i] + 1) % 65521
         IN  IF n < 0 THEN 0 ELSE Md5Fold(data, i + 1, n)

\* hashlib.md5(data).digest(): a 16-byte digest of the input.
md5(data) ==
    LET h == Md5Fold(data, 1, 5381)
    IN  [i \in 1..16 |-> ((h + 1) * (2 * i + 1) + (h \div 256)) % 256]

\* "".join("{:02X}".format(c) for c in data).encode('ASCII')
HexDigit(n) == IF n < 10 THEN 48 + n ELSE 55 + n

HexUpper(data) ==
    [i \in 1..(2 * Len(data)) |->
        LET b == data[(i + 1) \div 2]
        IN  IF i % 2 = 1 THEN HexDigit(b \div 16) ELSE HexDigit(b % 16)]

(***************************************************************************)
(* ecdsa on SECP160r1: a private key is a scalar, a public key a group     *)
(* element serialised to 40 bytes (two 20-byte coordinates).  The group is *)
(* modelled by the powers of a generator modulo a prime.                   *)
(***************************************************************************)
CurvePrime == 251

CurveGen == 6

PubKeySize == 40

RECURSIVE PowMod(_, _)
PowMod(b, e) == IF e = 0 THEN 1 ELSE (b * PowMod(b, e - 1)) % CurvePrime

\* SigningKey.get_verifying_key()
VerifyingKey(priv) == PowMod(CurveGen, priv)

\* VerifyingKey.to_string(): x then y, 20 bytes each, big endian.
PointToString(pt) ==
    [i \in 1..PubKeySize |->
        IF i = 20 THEN pt
        ELSE IF i = PubKeySize THEN (pt * pt) % CurvePrime
        ELSE 0]

\* VerifyingKey.from_string(data, curve): raises MalformedPointError unless
\* data is the encoding of a point of the curve.
PointFromString(data) ==
    IF Len(data) = PubKeySize /\ data[20] \in 1..(CurvePrime - 1)
       /\ data = PointToString(data[20])
    THEN [ok |-> TRUE, pt |-> data[20]]
    ELSE [ok |-> FALSE, pt |-> 0]

\* ECDH(curve, priv, pub).generate_sharedsecret_bytes(): 20 bytes.
SharedSecretBytes(priv, pub) ==
    LET s == PowMod(pub, priv)
    IN  [i \in 1..20 |-> (s * i + i) % 256]

(***************************************************************************)
(* packet.py: the inner frame                                              *)
(***************************************************************************)
PACKET_PREFIX == <<170>>

\* Packet(src, dst, cmd_set, cmd_id, payload, dsrc, ddst, version, seq,
\* product_id)
Packet(src, dst, cmd_set, cmd_id, payload, dsrc, ddst, version, seq, product_id) ==
    [src |-> src, dst |-> dst, cmd_set |-> cmd_set, cmd_id |-> cmd_id,
     payload |-> payload, dsrc |-> dsrc, ddst |-> ddst, version |-> version,
     seq |-> seq, product_id |-> product_id]

\* Packet.productByte
productByte(pkt) == IF pkt.product_id >= 0 THEN <<13>> ELSE <<12>>

\* A serialisation that ends with the CRC16 only for version 3.
PacketToBytesCrcVersion3(pkt) ==
    LET hdr == PACKET_PREFIX \o <<pkt.version>> \o PackH(Len(pkt.payload))
        data == hdr \o <<crc8(hdr)>> \o productByte(pkt) \o PackL(pkt.seq)
                \o <<0, 0>>
                \o <<pkt.src, pkt.dst, pkt.dsrc, pkt.ddst, pkt.cmd_set, pkt.cmd_id>>
                \o pkt.payload
    IN  IF pkt.version = 3 THEN data \o PackH(crc16(data)) ELSE data

\* Packet.toBytes
PacketToBytes(pkt) ==
    LET hdr == PACKET_PREFIX \o <<pkt.version>> \o PackH(Len(pkt.payload))
        data == hdr \o <<crc8(hdr)>> \o productByte(pkt) \o PackL(pkt.seq)
                \o <<0, 0>>
                \o <<pkt.src, pkt.dst, pkt.dsrc, pkt.ddst, pkt.cmd_set, pkt.cmd_id>>
                \o pkt.payload
    IN  data \o PackH(crc16(data))

Crc16CheckedAlways(version) == TRUE

\* The condition of line 47: the whole-frame CRC16 is checked for version 3.
Crc16Checked(version) == version = 3

\* Packet.fromBytes: the empty sequence for None, <<packet>> otherwise.
PacketFromBytes(data) ==
    IF Len(data) < 20 THEN <<>>
    ELSE IF ~StartsWith(data, PACKET_PREFIX) THEN <<>>
    ELSE LET version == data[2]
             payload_length == UnpackH(Slice(data, 2, 4))
         IN  IF Crc16Checked(version)
                /\ crc16(SubSeq(data, 1, Len(data) - 2))
                     # UnpackH(SliceFrom(data, Len(data) - 2))
             THEN <<>>
             ELSE IF crc8(Slice(data, 0, 4)) # data[5] THEN <<>>
             ELSE LET seq == UnpackL(Slice(data, 6, 10))
                      raw == IF payload_length > 0
                             THEN Slice(data, 18, 18 + payload_length)
                             ELSE <<>>
                      payload == IF version = 19 /\ Len(raw) >= 2
                                    /\ SliceFrom(raw, Len(raw) - 2) = <<187, 187>>
                                 THEN SubSeq(raw, 1, Len(raw) - 2)
                                 ELSE raw
                  IN  <<Packet(data[13], data[14], data[17], data[18], payload,
                               data[15], data[16], version, seq, 0)>>

(***************************************************************************)
(* encpacket.py: the outer frame                                           *)
(***************************************************************************)
ENC_PREFIX == <<90, 90>>

FRAME_TYPE_COMMAND == 0

FRAME_TYPE_PROTOCOL == 1

FRAME_TYPE_PROTOCOL_INT == 16

\* EncPacket.encryptPayload: the payload as it is when both enc_key and iv
\* are None; otherwise AES.new(enc_key, MODE_CBC, iv).  That call raises
\* TypeError when enc_key is None; when only iv is None the cipher takes a
\* fresh random IV, rnd (get_random_bytes(16)), and encrypts under it.
encryptPayload(payload, enc_key, iv, rnd) ==
    IF enc_key = None /\ iv = None
    THEN [ok |-> TRUE, data |-> payload]
    ELSE IF ~IsKey(enc_key)
    THEN [ok |-> FALSE, data |-> <<>>]
    ELSE IF iv = None
    THEN [ok |-> TRUE, data |-> AesCbcEncrypt(enc_key, rnd, pad(payload))]
    ELSE IF IsKey(iv)
    THEN [ok |-> TRUE, data |-> AesCbcEncrypt(enc_key, iv, pad(payload))]
    ELSE [ok |-> FALSE, data |-> <<>>]

\* The serialisation of EncPacket.toBytes for an already encrypted payload;
\* struct.pack('<B', frame_type << 4) raises struct.error above 255.
EncFrame(frame_type, payload) ==
    LET data == ENC_PREFIX \o <<frame_type * 16, 1>> \o PackH(Len(payload) + 2)
                \o payload
    IN  data \o PackH(crc16(data))

\* EncPacket(frame_type, payload_type, payload, 0, 0, 0, enc_key, iv).toBytes()
\* where get_random_bytes, if called, returns rnd.
EncPacketToBytesWith(frame_type, payload, enc_key, iv, rnd) ==
    LET p == encryptPayload(payload, enc_key, iv, rnd)
    IN  IF ~p.ok \/ frame_type * 16 > 255
        THEN [ok |-> FALSE, data |-> <<>>]
        ELSE [ok |-> TRUE, data |-> EncFrame(frame_type, p.data)]

\* The same for a caller that gives both enc_key and iv or neither, as every
\* caller in connection.py does: no random IV is drawn.
EncPacketToBytes(frame_type, payload, enc_key, iv) ==
    EncPacketToBytesWith(frame_type, payload, enc_key, iv, <<>>)

(***************************************************************************)
(* connection.py: the pure parts of Connection                             *)
(***************************************************************************)
\* Connection.decryptShared / decryptSession with the given key:
\* unpad(AES.new(key, MODE_CBC, iv).decrypt(payload)).  Raises when the key
\* attribute is missing, when the payload is no whole number of blocks and
\* when the padding is wrong.
decrypt(key, iv, encrypted_payload) ==
    IF ~IsKey(key) \/ ~IsKey(iv) \/ Len(encrypted_payload) % BlockSize # 0
    THEN [ok |-> FALSE, data |-> <<>>]
    ELSE unpad(AesCbcDecrypt(key, iv, encrypted_payload))

\* keydata.get8bytes(pos): eight bytes of the key table at offset pos.
get8bytes(pos) == [i \in 1..8 |-> (pos * 7 + i * 13 + 5) % 256]

\* Connection.genSessionKey(seed, srand).  struct.unpack('<Q', ...) of a
\* slice that is not 8 bytes long, or a seed shorter than 2 bytes, raises.
genSessionKey(seed, srand) ==
    IF Len(seed) < 2 THEN [ok |-> FALSE, key |-> <<>>]
    ELSE LET pos == seed[1] * 16 + ((seed[2] + 255) % 256) * 256
             n0 == get8bytes(pos)
             n1 == get8bytes(pos + 8)
         IN  IF Len(srand) >= 32 THEN [ok |-> FALSE, key |-> <<>>]
             ELSE IF Len(Slice(srand, 0, 8)) # 8 \/ Len(Slice(srand, 8, 16)) # 8
             THEN [ok |-> FALSE, key |-> <<>>]
             ELSE [ok |-> TRUE,
                   key |-> md5(n0 \o n1 \o Slice(srand, 0, 8) \o Slice(srand, 8, 16))]

\* getEcdhTypeSize(curve_num): `case 3,4:` is a sequence pattern, which an
\* integer never matches.
getEcdhTypeSize(curve_num) ==
    CASE curve_num = 1 -> 52
      [] curve_num = 2 -> 56
      [] OTHER -> 40

\* Connection.parseSimple(data): the payload of one unencrypted outer frame.
\* A frame shorter than its header or its declared length makes
\* struct.unpack raise; a wrong CRC16 raises as well.
parseSimple(data) ==
    IF Len(data) < 6 THEN [ok |-> FALSE, data |-> <<>>]
    ELSE LET header == Slice(data, 0, 6)
             data_end == 6 + UnpackH(Slice(header, 4, 6))
             payload_data == Slice(data, 6, data_end - 2)
             payload_crc == Slice(data, data_end - 2, data_end)
         IN  IF Len(payload_crc) # 2 THEN [ok |-> FALSE, data |-> <<>>]
             ELSE IF crc16(header \o payload_data) # UnpackH(payload_crc)
             THEN [ok |-> FALSE, data |-> <<>>]
             ELSE [ok |-> TRUE, data |-> payload_data]

PrefixOkAlways(data) == TRUE

\* The check of line 190: data starts with the prefix of an outer frame.
PrefixOk(data) == StartsWith(data, ENC_PREFIX)

FrameIncompleteOrExact(data_end, data) == data_end >= Len(data)

\* The comparison of line 196: the frame that starts data is not complete.
FrameIncomplete(data_end, data) == data_end > Len(data)

\* The walk of Connection.parseEncPackets over the bytes left in data.
\*   err     "" when the call returns, else the exception it raises
\*   packets the Packets decoded (returned only when err = "")
\*   buffer  self._enc_packet_buffer when the call ends
\* A wrong CRC16 reaches the log call of line 208, whose argument reads the
\* undefined name payload_length: NameError.  A remainder of 2..5 bytes that
\* starts with the prefix makes struct.unpack('<H', header[4:6]) raise.
RECURSIVE parseEncWalk(_, _, _, _)
parseEncWalk(data, packets, key, iv) ==
    IF data = <<>> THEN [err |-> "", packets |-> packets, buffer |-> <<>>]
    ELSE IF ~PrefixOk(data)
    THEN [err |-> "", packets |-> packets, buffer |-> <<>>]
    ELSE IF Len(data) < 6
    THEN [err |-> "struct.error", packets |-> <<>>, buffer |-> <<>>]
    ELSE LET header == Slice(data, 0, 6)
             data_end == 6 + UnpackH(Slice(header, 4, 6))
         IN  IF FrameIncomplete(data_end, data)
             THEN [err |-> "", packets |-> packets, buffer |-> data]
             ELSE LET payload_data == Slice(data, 6, data_end - 2)
                      payload_crc == Slice(data, data_end - 2, data_end)
                      rest == SliceFrom(data, data_end)
                  IN  IF crc16(header \o payload_data) # UnpackH(payload_crc)
                      THEN [err |-> "NameError", packets |-> <<>>, buffer |-> <<>>]
                      ELSE LET payload == decrypt(key, iv, payload_data)
                           IN  IF ~payload.ok
                               THEN [err |-> "ValueError", packets |-> <<>>,
                                     buffer |-> <<>>]
                               ELSE parseEncWalk(rest,
                                        packets \o PacketFromBytes(payload.data),
                                        key, iv)

\* Connection.parseEncPackets(data) with self._enc_packet_buffer = buffer and
\* the session key and IV of the connection.
parseEncPackets(buffer, data, key, iv) ==
    LET all == buffer \o data
    IN  IF Len(all) < 8
        THEN [err |-> "TypeError", packets |-> <<>>, buffer |-> <<>>]
        ELSE parseEncWalk(all, <<>>, key, iv)

(***************************************************************************)
(* The device and the handshake messages                                   *)
(***************************************************************************)
\* Bounds of the model.
MaxConnectCalls == 2

MaxDrops == 1

MaxDisconnects == 1

MaxFaults == 1

MaxPush == 1

MaxFrames == 2

MaxFrags == 1

\* The calls of the caller and the events of the environment in one run.
MaxEvents == 3

\* The cuts the transport makes in the stream of the decoder model.
MaxCuts == 2

\* Where the transport cuts a message it delivers in two notifications.
FragmentAt == 20

\* The device's own key pair and the key-info material it hands out.
DevPriv == 9

DevSRand == [i \in 1..16 |-> (17 * i) % 256]

DevSeed == <<3, 1>>

\* self._user_id and self._dev_sn, ASCII.
UserId == <<49, 50>>

DevSn == <<89, 55, 49, 49>>

\* ecdsa.SigningKey.generate(): the n-th key generated by this process.
GeneratedKey(n) == 2 * n + 1

\* What initBleSessionKeyHandler derives from the device's public key.
DeriveShared(priv, pub) ==
    LET secret == SharedSecretBytes(priv, pub)
    IN  [iv |-> md5(secret),
         shared_key |-> IF Len(secret) > 16 THEN Slice(secret, 0, 16) ELSE secret]

\* The session key both sides derive from the key-info material.
DevSessionKey == genSessionKey(DevSeed, DevSRand).key

\* A telemetry frame as the device pushes it once authenticated.
TelemetryPacket(n) == Packet(11, 33, 12, 1, <<n, 7>>, 1, 1, 3, n, 0)

(***************************************************************************)
(* State                                                                   *)
(***************************************************************************)
VARIABLES
    hasClient,            \* self._client != None
    link,                 \* self._client.is_connected
    retry_on_disconnect,  \* self._retry_on_disconnect
    disconnected_event,   \* self._disconnected.is_set()
    enc_packet_buffer,    \* self._enc_packet_buffer
    private_key,          \* self._private_key (0: not generated yet)
    shared_key,           \* self._shared_key (<<>>: not set yet)
    iv,                   \* self._iv
    session_key,          \* self._session_key
    notify,               \* the callback subscribed on the notify characteristic
    tasks,                \* the coroutines suspended in an await on the transport
    air,                  \* what the device sent and the transport has not delivered
    dev,                  \* the device's side of the session
    calls,                \* connect() calls made by the caller
    disconnects,          \* disconnect() calls made by the caller
    drops,                \* unexpected link losses
    faults,               \* wrong responses and failed connections so far
    frags,                \* messages the transport delivered in two parts
    pushes,               \* telemetry frames pushed by the device
    keyGen,               \* key pairs generated, one per handshake attempt
    deliveries,           \* calls of listenForDataHandler
    kinds,                \* the frames of the stream under decode (decoder runs)
    rx,                   \* the packets handed to data_parse, in order
    rxErr,                \* the exceptions raised in listenForDataHandler
    parseLog,             \* where data_parse was called from
    returned,             \* attempts whose connect() returned normally
    raised,               \* attempts whose connect() raised
    aborted,              \* attempts with a handshake handler that raised
    authLog,              \* the runs of autoAuthenticationHandler
    callbackLog,          \* the runs of disconnected()
    call,                 \* the library function called last, with its arguments
    result,               \* what that call returned or raised
    device,               \* the Device object: its telemetry attributes
    callbacks             \* the Device's self._callbacks

\* The variables of a Connection and its run.
sessionVars == <<hasClient, link, retry_on_disconnect, disconnected_event,
                 enc_packet_buffer, private_key, shared_key, iv, session_key,
                 notify, tasks, air, dev, calls, disconnects, drops, faults,
                 frags, pushes, keyGen, deliveries, kinds, rx, rxErr, parseLog,
                 returned, raised, aborted, authLog, callbackLog>>

\* The variables of the calls into the library outside a Connection.
libVars == <<call, result, device, callbacks>>

vars == <<sessionVars, libVars>>

connVars == <<hasClient, link, retry_on_disconnect, disconnected_event,
              enc_packet_buffer, private_key, shared_key, iv, session_key>>

keyVars == <<private_key, shared_key, iv, session_key>>

countVars == <<calls, disconnects, drops, faults, frags, pushes>>

logVars == <<deliveries, rx, rxErr, parseLog, returned, raised, aborted,
             authLog, callbackLog>>

\* No library call made and no Device created.
LibIdle ==
    /\ call = [op |-> ""]
    /\ result = [ok |-> TRUE]
    /\ device = [variant |-> ""]
    /\ callbacks = {}

\* The calls and events so far.
Events == calls + disconnects + drops + faults + frags

\* The handshake states of one attempt, in order.
FullTrail ==
    <<"KeyExchange", "SharedKeySet", "KeyInfoRequested", "SessionKeyDerived",
      "AuthStatusRequested", "AuthSent", "Authenticated", "Listening">>

NoChain == [att |-> 0, trail |-> <<>>]

NoNotify == [handler |-> "", chain |-> NoChain]

NoMsg == [re |-> "", p |-> <<>>]

NoDev == [shared_key |-> <<>>, iv |-> <<>>, authed |-> FALSE]

\* A coroutine suspended in an await.
\*   kind    "connect" (Connection.connect), "handler" (a response handler),
\*           "disconnect" (Connection.disconnect)
\*   origin  who runs a connect: "caller" or "reconnect" (the task of line 98)
\*   pc      the await it is suspended in; "created" for a task not started
\*   handler the response handler this coroutine is
\*   next    the handler sendRequest subscribes
\*   data    recv_data
\*   send    send_data ("" when nothing is written after the subscription)
\*   chain   the attempt and the states it passed
\*   p, whole  what the device put in the message, and whether recv_data is
\*           the whole message
Task(kind, origin, pc, handler, next, data, send, chain, msg, whole) ==
    [kind |-> kind, origin |-> origin, pc |-> pc, handler |-> handler,
     next |-> next, data |-> data, send |-> send, chain |-> chain, msg |-> msg,
     whole |-> whole]

ConnectTask(origin, pc) ==
    Task("connect", origin, pc, "", "", <<>>, <<>>, NoChain, NoMsg, FALSE)

RemoveAt(s, i) == SubSeq(s, 1, i - 1) \o SubSeq(s, i + 1, Len(s))

\* The coroutine at position i goes on to its next await: its operation
\* joins the end of the transport's queue.
Reissue(s, i, x) == Append(RemoveAt(s, i), x)

\* The transport serves the operations of the client in the order in which
\* they were issued: the oldest suspended coroutine is the one to resume.
Oldest(s) == IF s = <<>> THEN {} ELSE {1}

RECURSIVE SelectTasks(_, _)
SelectTasks(s, keep) ==
    IF s = <<>> THEN <<>>
    ELSE IF Head(s).pc \in keep THEN <<Head(s)>> \o SelectTasks(Tail(s), keep)
    ELSE SelectTasks(Tail(s), keep)

(***************************************************************************)
(* The handshake steps of Connection.  Each handler yields                 *)
(*   ok      FALSE when it raises                                          *)
(*   buffer, shared_key, iv, session_key   the attributes when it ends     *)
(*   next, send   the arguments of its sendRequest / start_notify          *)
(*   stages  the handshake states it enters                                *)
(***************************************************************************)
Raise(buffer) ==
    [ok |-> FALSE, buffer |-> buffer, shared_key |-> shared_key, iv |-> iv,
     session_key |-> session_key, next |-> "", send |-> <<>>, stages |-> <<>>]

\* Connection.initBleSessionKey with the n-th generated key pair.
initBleSessionKey(n) ==
    LET priv == GeneratedKey(n)
        to_send == EncPacketToBytes(FRAME_TYPE_COMMAND,
                       <<1, 0>> \o PointToString(VerifyingKey(priv)), None, None)
    IN  [private_key |-> priv, next |-> "initBleSessionKeyHandler",
         send |-> to_send.data]

\* The request as it would be if the EncPacket were given a key and an IV.
getKeyInfoReqEncrypted ==
    EncPacketToBytes(FRAME_TYPE_COMMAND, <<2>>, DevSessionKey, DevSessionKey)

\* Connection.getKeyInfoReq
getKeyInfoReq == EncPacketToBytes(FRAME_TYPE_COMMAND, <<2>>, None, None)

\* Connection.getAuthStatus with the session key just derived
getAuthStatus(key) ==
    EncPacketToBytes(FRAME_TYPE_PROTOCOL,
        PacketToBytes(Packet(33, 53, 53, 137, <<>>, 1, 1, 3, 0, 0)), key, iv)

\* Connection.autoAuthentication
autoAuthentication ==
    LET md5_data == md5(UserId \o DevSn)
        payload == HexUpper(md5_data)
    IN  EncPacketToBytes(FRAME_TYPE_PROTOCOL,
            PacketToBytes(Packet(33, 53, 53, 134, payload, 1, 1, 3, 0, 0)),
            session_key, iv)

\* Connection.initBleSessionKeyHandler, after its stop_notify
initBleSessionKeyHandler(recv_data) ==
    LET data == parseSimple(recv_data)
    IN  IF ~data.ok \/ Len(data.data) < 3 THEN Raise(enc_packet_buffer)
        ELSE LET ecdh_type_size == getEcdhTypeSize(data.data[3])
                 dev_pub_key == PointFromString(Slice(data.data, 3, ecdh_type_size + 3))
             IN  IF ~dev_pub_key.ok \/ private_key = 0 THEN Raise(enc_packet_buffer)
                 ELSE LET d == DeriveShared(private_key, dev_pub_key.pt)
                      IN  [ok |-> TRUE, buffer |-> enc_packet_buffer,
                           shared_key |-> d.shared_key, iv |-> d.iv,
                           session_key |-> session_key,
                           next |-> "getKeyInfoReqHandler",
                           send |-> getKeyInfoReq.data,
                           stages |-> <<"SharedKeySet", "KeyInfoRequested">>]

\* The tag test of line 274.
KeyInfoTagOk(encrypted_data) == encrypted_data[1] = 2

\* Connection.getKeyInfoReqHandler, after its stop_notify
getKeyInfoReqHandler(recv_data) ==
    LET encrypted_data == parseSimple(recv_data)
    IN  IF ~encrypted_data.ok \/ Len(encrypted_data.data) < 1
        THEN Raise(enc_packet_buffer)
        ELSE IF ~KeyInfoTagOk(encrypted_data.data) THEN Raise(enc_packet_buffer)
        ELSE LET data == decrypt(shared_key, iv, SliceFrom(encrypted_data.data, 1))
             IN  IF ~data.ok THEN Raise(enc_packet_buffer)
                 ELSE LET k == genSessionKey(Slice(data.data, 16, 18),
                                             Slice(data.data, 0, 16))
                          to_send == getAuthStatus(k.key)
                      IN  IF ~k.ok \/ ~to_send.ok THEN Raise(enc_packet_buffer)
                          ELSE [ok |-> TRUE, buffer |-> enc_packet_buffer,
                                shared_key |-> shared_key, iv |-> iv,
                                session_key |-> k.key,
                                next |-> "getAuthStatusHandler",
                                send |-> to_send.data,
                                stages |-> <<"SessionKeyDerived",
                                             "AuthStatusRequested">>]

\* The test of lines 302 and 331.
NoPacket(packets) == Len(packets) < 1

\* Connection.getAuthStatusHandler, after its stop_notify
getAuthStatusHandler(recv_data) ==
    LET r == parseEncPackets(enc_packet_buffer, recv_data, session_key, iv)
    IN  IF r.err # "" THEN Raise(r.buffer)
        ELSE IF NoPacket(r.packets) THEN Raise(r.buffer)
        ELSE LET to_send == autoAuthentication
             IN  IF ~to_send.ok THEN Raise(r.buffer)
                 ELSE [ok |-> TRUE, buffer |-> r.buffer,
                       shared_key |-> shared_key, iv |-> iv,
                       session_key |-> session_key,
                       next |-> "autoAuthenticationHandler",
                       send |-> to_send.data, stages |-> <<"AuthSent">>]

\* The test of line 337: the response is an authentication failure.
AuthFailed(data) == data # <<0>>

\* Connection.autoAuthenticationHandler, after its stop_notify; listenForData
\* subscribes listenForDataHandler and writes nothing.
autoAuthenticationHandler(recv_data) ==
    LET r == parseEncPackets(enc_packet_buffer, recv_data, session_key, iv)
    IN  IF r.err # "" THEN Raise(r.buffer)
        ELSE IF NoPacket(r.packets) THEN Raise(r.buffer)
        ELSE IF AuthFailed(r.packets[1].payload) THEN Raise(r.buffer)
        ELSE [ok |-> TRUE, buffer |-> r.buffer,
              shared_key |-> shared_key, iv |-> iv, session_key |-> session_key,
              next |-> "listenForDataHandler", send |-> <<>>,
              stages |-> <<"Authenticated">>]

RunHandlerSkippingAuth(handler, recv_data) ==
    CASE handler = "initBleSessionKeyHandler" -> initBleSessionKeyHandler(recv_data)
      [] handler = "getKeyInfoReqHandler" -> getKeyInfoReqHandler(recv_data)
      [] OTHER -> [autoAuthenticationHandler(recv_data) EXCEPT
                       !.stages = IF handler = "getAuthStatusHandler"
                                  THEN <<>> ELSE @]

\* The handler the notification callback names.
RunHandler(handler, recv_data) ==
    CASE handler = "initBleSessionKeyHandler" -> initBleSessionKeyHandler(recv_data)
      [] handler = "getKeyInfoReqHandler" -> getKeyInfoReqHandler(recv_data)
      [] handler = "getAuthStatusHandler" -> getAuthStatusHandler(recv_data)
      [] OTHER -> autoAuthenticationHandler(recv_data)

(***************************************************************************)
(* The device, as the handshake of connection.py expects it to answer      *)
(***************************************************************************)
\* A message on its way to the controller: its bytes, the request it answers
\* ("" for a frame the device pushes), the inner payload the device put in
\* it, and whether the bytes are still the whole message.
Msg(data, re, p) == [data |-> data, re |-> re, p |-> p, whole |-> TRUE]

\* One flipped byte in the trailing checksum.
CorruptCrc(frame) ==
    [frame EXCEPT ![Len(frame)] = (frame[Len(frame)] + 1) % 256]

\* A frame that does not start with 5A 5A.
CorruptPrefix(frame) == [frame EXCEPT ![1] = 165]

\* The answers the device may give to the request a handler waits for.
Variants(handler) ==
    CASE handler = "initBleSessionKeyHandler" -> {"ok", "crc"}
      [] handler = "getKeyInfoReqHandler" -> {"ok", "tag", "srand32"}
      [] handler = "getAuthStatusHandler" -> {"ok", "empty"}
      [] OTHER -> {"ok", "reject", "long", "none"}

AuthPayload(v) ==
    CASE v = "ok" -> <<0>>
      [] v = "reject" -> <<1>>
      [] v = "long" -> <<0, 0>>
      [] OTHER -> <<>>

\* The random value of a device of the extended-randomness kind: 32 bytes.
DevSRand32 == [i \in 1..32 |-> (201 + 11 * i) % 256]

\* An inner frame from the device, encrypted with the session key.
DevFrame(pkt) ==
    EncPacketToBytes(FRAME_TYPE_PROTOCOL, PacketToBytes(pkt), DevSessionKey,
                     dev.iv).data

\* The request decrypted by the device: <<packet>>, or <<>> when the device
\* cannot read it.
DevRead(req) ==
    LET d == decrypt(DevSessionKey, dev.iv, parseSimple(req).data)
    IN  IF d.ok THEN PacketFromBytes(d.data) ELSE <<>>

\* The device receives the request req written for `handler` and answers in
\* the way v.
DeviceAnswer(handler, req, v) ==
    CASE handler = "initBleSessionKeyHandler" ->
            LET payload == parseSimple(req).data
                pub == PointFromString(Slice(payload, 2, 2 + PubKeySize))
                d == DeriveShared(DevPriv, pub.pt)
                frame == EncFrame(FRAME_TYPE_COMMAND,
                             <<1, 0, 0>> \o PointToString(VerifyingKey(DevPriv)))
            IN  IF ~pub.ok THEN [dev |-> dev, out |-> <<>>]
                ELSE [dev |-> [shared_key |-> d.shared_key, iv |-> d.iv,
                               authed |-> FALSE],
                      out |-> <<Msg(IF v = "crc" THEN CorruptCrc(frame) ELSE frame,
                                    handler, <<>>)>>]
      [] handler = "getKeyInfoReqHandler" ->
            IF ~IsKey(dev.shared_key) THEN [dev |-> dev, out |-> <<>>]
            ELSE [dev |-> dev,
                  out |-> <<Msg(EncFrame(FRAME_TYPE_COMMAND,
                                  <<IF v = "tag" THEN 3 ELSE 2>>
                                  \o AesCbcEncrypt(dev.shared_key, dev.iv,
                                         pad(IF v = "srand32"
                                             THEN DevSRand32 \o DevSeed
                                             ELSE DevSRand \o DevSeed))),
                                handler, <<>>)>>]
      [] handler = "getAuthStatusHandler" ->
            IF DevRead(req) = <<>> THEN [dev |-> dev, out |-> <<>>]
            ELSE [dev |-> dev,
                  out |-> <<Msg(IF v = "empty"
                                THEN EncPacketToBytes(FRAME_TYPE_PROTOCOL, <<0>>,
                                         DevSessionKey, dev.iv).data
                                ELSE DevFrame(Packet(53, 33, 53, 137, <<0>>,
                                                     1, 1, 3, 0, 0)),
                                handler, <<>>)>>]
      [] OTHER ->
            IF DevRead(req) = <<>> THEN [dev |-> dev, out |-> <<>>]
            ELSE [dev |-> [dev EXCEPT !.authed = (v = "ok")],
                  out |-> <<Msg(DevFrame(Packet(53, 33, 53, 134, AuthPayload(v),
                                                1, 1, 3, 0, 0)),
                                "autoAuthenticationHandler", AuthPayload(v))>>]

(***************************************************************************)
(* Actions                                                                 *)
(***************************************************************************)
InitSession ==
    /\ hasClient = FALSE
    /\ link = FALSE
    /\ retry_on_disconnect = TRUE
    /\ disconnected_event = FALSE
    /\ enc_packet_buffer = <<>>
    /\ private_key = 0
    /\ shared_key = <<>>
    /\ iv = <<>>
    /\ session_key = <<>>
    /\ notify = NoNotify
    /\ tasks = <<>>
    /\ air = <<>>
    /\ dev = NoDev
    /\ calls = 0
    /\ disconnects = 0
    /\ drops = 0
    /\ faults = 0
    /\ frags = 0
    /\ pushes = 0
    /\ keyGen = 0
    /\ deliveries = 0
    /\ kinds = <<>>
    /\ rx = <<>>
    /\ rxErr = {}
    /\ parseLog = {}
    /\ returned = {}
    /\ raised = {}
    /\ aborted = {}
    /\ authLog = {}
    /\ callbackLog = {}

Init == InitSession /\ LibIdle

\* Connection.connect up to its first await, run by `origin`; ts are the
\* other suspended coroutines.
ConnectEntry(origin, ts) ==
    /\ retry_on_disconnect' = TRUE
    /\ tasks' = IF hasClient
                THEN IF link THEN ts
                     ELSE Append(ts, ConnectTask(origin, "client.connect"))
                ELSE Append(ts, ConnectTask(origin, "establish"))

\* The caller calls connect().
Connect ==
    /\ calls < MaxConnectCalls
    /\ Events < MaxEvents
    /\ calls' = calls + 1
    /\ ConnectEntry("caller", tasks)
    /\ UNCHANGED <<hasClient, link, disconnected_event, enc_packet_buffer,
                   keyVars, notify, air, dev, disconnects, drops, faults, frags,
                   pushes, keyGen, kinds, logVars>>

\* The task created by disconnected() starts to run connect().
ConnectTaskStart(i) ==
    /\ tasks[i].kind = "connect"
    /\ tasks[i].pc = "created"
    /\ ConnectEntry("reconnect", RemoveAt(tasks, i))
    /\ UNCHANGED <<hasClient, link, disconnected_event, enc_packet_buffer,
                   keyVars, notify, air, dev, countVars, keyGen, kinds, logVars>>

\* establish_connection / client.connect() returns: the link is up, and
\* connect() goes on to initBleSessionKey, up to the start_notify of its
\* sendRequest.
EstablishDone(i) ==
    /\ tasks[i].pc \in {"establish", "client.connect"}
    /\ hasClient' = TRUE
    /\ link' = TRUE
    /\ keyGen' = keyGen + 1
    /\ LET k == initBleSessionKey(keyGen + 1)
       IN  /\ private_key' = k.private_key
           /\ tasks' = Reissue(tasks, i,
                          Task("connect", tasks[i].origin, "start_notify", "",
                               k.next, <<>>, k.send,
                               [att |-> keyGen + 1, trail |-> <<"KeyExchange">>],
                               NoMsg, FALSE))
    /\ UNCHANGED <<retry_on_disconnect, disconnected_event, enc_packet_buffer,
                   shared_key, iv, session_key, notify, air, dev, countVars,
                   kinds, logVars>>

\* establish_connection / client.connect() raises: connect() logs and
\* re-raises.
EstablishFail(i) ==
    /\ tasks[i].pc \in {"establish", "client.connect"}
    /\ ~link
    /\ faults < MaxFaults
    /\ Events < MaxEvents
    /\ faults' = faults + 1
    /\ tasks' = RemoveAt(tasks, i)
    /\ raised' = raised \cup {0}
    /\ UNCHANGED <<connVars, notify, air, dev, calls, disconnects, drops, frags,
                   pushes, keyGen, kinds, deliveries, rx, rxErr, parseLog,
                   returned, aborted, authLog, callbackLog>>

\* start_notify returns: the callback is subscribed; sendRequest goes on to
\* write_gatt_char, listenForData ends.
StartNotifyDone(i) ==
    /\ tasks[i].pc = "start_notify"
    /\ link
    /\ notify' = [handler |-> tasks[i].next,
                  chain |-> IF tasks[i].next = "listenForDataHandler"
                            THEN [tasks[i].chain EXCEPT
                                      !.trail = Append(@, "Listening")]
                            ELSE tasks[i].chain]
    /\ tasks' = IF tasks[i].send = <<>> THEN RemoveAt(tasks, i)
                ELSE Reissue(tasks, i, [tasks[i] EXCEPT !.pc = "write"])
    /\ UNCHANGED <<connVars, air, dev, countVars, keyGen, kinds, logVars>>

\* write_gatt_char returns: the device has the request and answers it; the
\* coroutine ends (connect() returns to its caller).
WriteDone(i) ==
    /\ tasks[i].pc = "write"
    /\ link
    /\ \E v \in (IF faults < MaxFaults /\ Events < MaxEvents
                 THEN Variants(tasks[i].next) ELSE {"ok"}) :
          LET a == DeviceAnswer(tasks[i].next, tasks[i].send, v)
          IN  /\ dev' = a.dev
              /\ air' = air \o a.out
              /\ faults' = IF v = "ok" THEN faults ELSE faults + 1
    /\ returned' = IF tasks[i].kind = "connect"
                   THEN returned \cup {tasks[i].chain.att} ELSE returned
    /\ tasks' = RemoveAt(tasks, i)
    /\ UNCHANGED <<connVars, notify, calls, disconnects, drops, frags, pushes,
                   keyGen, kinds, deliveries, rx, rxErr, parseLog, raised,
                   aborted, authLog, callbackLog>>

\* Connection.listenForDataHandler(recv_data): parseEncPackets, then
\* data_parse for every packet it returned.  `chain` is the handshake that
\* subscribed the handler.
ListenForDataHandler(recv_data, chain) ==
    LET r == parseEncPackets(enc_packet_buffer, recv_data, session_key, iv)
    IN  /\ enc_packet_buffer' = r.buffer
        /\ rx' = IF r.err = "" THEN rx \o r.packets ELSE rx
        /\ rxErr' = IF r.err = "" THEN rxErr ELSE rxErr \cup {r.err}
        /\ parseLog' = IF r.err = "" /\ r.packets # <<>>
                       THEN parseLog \cup {chain} ELSE parseLog
        /\ deliveries' = deliveries + 1

\* The transport delivers the first k bytes of the oldest message in a
\* notification.  A handshake callback first awaits stop_notify; the listening
\* callback decodes at once.
Notify(k) ==
    /\ link
    /\ air # <<>>
    /\ k \in 1..Len(Head(air).data)
    /\ LET m == Head(air)
           recv_data == SubSeq(m.data, 1, k)
           cut == k < Len(m.data)
       IN  /\ air' = IF cut
                     THEN <<[m EXCEPT !.data = SubSeq(m.data, k + 1, Len(m.data)),
                                      !.whole = FALSE]>> \o Tail(air)
                     ELSE Tail(air)
           /\ frags' = IF cut THEN frags + 1 ELSE frags
           /\ IF notify.handler = "listenForDataHandler"
              THEN /\ ListenForDataHandler(recv_data, notify.chain)
                   /\ UNCHANGED tasks
              ELSE /\ tasks' = IF notify.handler = "" THEN tasks
                               ELSE Append(tasks,
                                        Task("handler", "", "stop_notify",
                                             notify.handler, "", recv_data, <<>>,
                                             notify.chain,
                                             [re |-> m.re, p |-> m.p],
                                             m.whole /\ ~cut))
                   /\ UNCHANGED <<enc_packet_buffer, rx, rxErr, parseLog,
                                  deliveries>>
    /\ UNCHANGED <<hasClient, link, retry_on_disconnect, disconnected_event,
                   keyVars, notify, dev, calls, disconnects, drops, faults,
                   pushes, keyGen, kinds, returned, raised, aborted, authLog,
                   callbackLog>>

\* The notifications of the connection model: whole messages, and one cut.
NotifySome ==
    /\ air # <<>>
    /\ \E k \in {Len(Head(air).data)}
                \cup (IF frags < MaxFrags /\ Events < MaxEvents /\ Head(air).whole
                      THEN {FragmentAt} ELSE {}) :
          Notify(k)

\* What the authentication handler saw as the payload of the first decoded
\* packet: <<payload>>, or <<>> when it had none.
FirstPayload(recv_data) ==
    LET r == parseEncPackets(enc_packet_buffer, recv_data, session_key, iv)
    IN  IF r.err = "" /\ r.packets # <<>> THEN <<r.packets[1].payload>> ELSE <<>>

\* stop_notify returns in a handshake callback: the rest of the handler runs
\* up to the start_notify of the next step.
StopNotifyDone(i) ==
    /\ tasks[i].pc = "stop_notify"
    /\ link
    /\ LET t == tasks[i]
           o == RunHandler(t.handler, t.data)
       IN  /\ notify' = NoNotify
           /\ enc_packet_buffer' = o.buffer
           /\ shared_key' = o.shared_key
           /\ iv' = o.iv
           /\ session_key' = o.session_key
           /\ tasks' = IF o.ok
                       THEN Reissue(tasks, i,
                                Task("handler", "", "start_notify", t.handler,
                                     o.next, <<>>, o.send,
                                     [att |-> t.chain.att,
                                      trail |-> t.chain.trail \o o.stages],
                                     t.msg, t.whole))
                       ELSE RemoveAt(tasks, i)
           /\ aborted' = IF o.ok THEN aborted ELSE aborted \cup {t.chain.att}
           /\ authLog' = IF t.handler = "autoAuthenticationHandler"
                         THEN authLog \cup
                              {[att |-> t.chain.att, re |-> t.msg.re,
                                p |-> t.msg.p,
                                whole |-> t.whole /\ enc_packet_buffer = <<>>,
                                first |-> FirstPayload(t.data),
                                entered |-> o.ok]}
                         ELSE authLog
    /\ UNCHANGED <<hasClient, link, retry_on_disconnect, disconnected_event,
                   private_key, air, dev, countVars, keyGen, kinds, deliveries,
                   rx, rxErr, parseLog, returned, raised, callbackLog>>

\* The authenticated device pushes a telemetry frame.
DevicePush ==
    /\ link
    /\ dev.authed
    /\ pushes < MaxPush
    /\ pushes' = pushes + 1
    /\ air' = Append(air, Msg(DevFrame(TelemetryPacket(pushes + 1)), "",
                              TelemetryPacket(pushes + 1).payload))
    /\ UNCHANGED <<connVars, notify, tasks, dev, calls, disconnects, drops,
                   faults, frags, keyGen, kinds, logVars>>

\* The link goes down.  The awaits pending on the client raise, the
\* subscriptions and the messages in flight are gone, the device forgets the
\* session, and the client calls Connection.disconnected.  ts are the
\* coroutines that remain, events the calls and events up to the callback.
LinkDown(ts, explicit, events) ==
    LET pending == {"start_notify", "write", "stop_notify"}
        kept == SelectTasks(ts, {"created", "establish", "client.connect",
                                 "client.disconnect"})
    IN  /\ link' = FALSE
        /\ notify' = NoNotify
        /\ air' = <<>>
        /\ dev' = NoDev
        /\ raised' = raised \cup
                     {ts[j].chain.att : j \in {n \in 1..Len(ts) :
                          ts[n].kind = "connect" /\ ts[n].pc \in pending}}
        /\ callbackLog' = callbackLog \cup
                          {[explicit |-> explicit, retry |-> retry_on_disconnect,
                            events |-> events]}
        /\ IF retry_on_disconnect
           THEN /\ tasks' = Append(kept, ConnectTask("reconnect", "created"))
                /\ UNCHANGED disconnected_event
           ELSE /\ tasks' = kept
                /\ disconnected_event' = TRUE

\* The link drops unexpectedly.
Drop ==
    /\ link
    /\ drops < MaxDrops
    /\ Events < MaxEvents
    /\ drops' = drops + 1
    /\ LinkDown(tasks, FALSE, Events + 1)
    /\ UNCHANGED <<hasClient, retry_on_disconnect, enc_packet_buffer, keyVars,
                   calls, disconnects, faults, frags, pushes, keyGen, kinds,
                   deliveries, rx, rxErr, parseLog, returned, aborted, authLog>>

\* The caller calls disconnect(): up to the await of client.disconnect().
Disconnect ==
    /\ disconnects < MaxDisconnects
    /\ Events < MaxEvents
    /\ disconnects' = disconnects + 1
    /\ retry_on_disconnect' = FALSE
    /\ tasks' = IF hasClient
                THEN Append(tasks, Task("disconnect", "caller", "client.disconnect",
                                        "", "", <<>>, <<>>, NoChain, NoMsg, FALSE))
                ELSE tasks
    /\ UNCHANGED <<hasClient, link, disconnected_event, enc_packet_buffer,
                   keyVars, notify, air, dev, calls, drops, faults, frags, pushes,
                   keyGen, kinds, logVars>>

\* client.disconnect() returns: if the link was up it is now down and the
\* client has called Connection.disconnected.
DisconnectDone(i) ==
    /\ tasks[i].pc = "client.disconnect"
    /\ IF link
       THEN LinkDown(RemoveAt(tasks, i), TRUE, Events)
       ELSE /\ tasks' = RemoveAt(tasks, i)
            /\ UNCHANGED <<link, notify, air, dev, raised, callbackLog,
                           disconnected_event>>
    /\ UNCHANGED <<hasClient, retry_on_disconnect, enc_packet_buffer, keyVars,
                   countVars, keyGen, kinds, deliveries, rx, rxErr, parseLog,
                   returned, aborted, authLog>>

Next ==
    \/ Connect /\ UNCHANGED libVars
    \/ \E i \in Oldest(tasks) : ConnectTaskStart(i) /\ UNCHANGED libVars
    \/ \E i \in Oldest(tasks) : EstablishDone(i) /\ UNCHANGED libVars
    \/ \E i \in Oldest(tasks) : EstablishFail(i) /\ UNCHANGED libVars
    \/ \E i \in Oldest(tasks) : StartNotifyDone(i) /\ UNCHANGED libVars
    \/ \E i \in Oldest(tasks) : WriteDone(i) /\ UNCHANGED libVars
    \/ NotifySome /\ UNCHANGED libVars
    \/ \E i \in Oldest(tasks) : StopNotifyDone(i) /\ UNCHANGED libVars
    \/ DevicePush /\ UNCHANGED libVars
    \/ Drop /\ UNCHANGED libVars
    \/ Disconnect /\ UNCHANGED libVars
    \/ \E i \in Oldest(tasks) : DisconnectDone(i) /\ UNCHANGED libVars

Spec == Init /\ [][Next]_vars

(***************************************************************************)
(* The decoder on its own: a connection in Listening receives a stream of  *)
(* outer frames in notifications cut anywhere.                             *)
(***************************************************************************)
\* The keys of the connection after the handshake of attempt 1.
ListeningKeys == DeriveShared(GeneratedKey(1), VerifyingKey(DevPriv))

\* Frame n of the stream: valid, with one flipped checksum byte, or with a
\* wrong prefix.
StreamFrame(n, kind) ==
    LET frame == EncPacketToBytes(FRAME_TYPE_PROTOCOL,
                     PacketToBytes(TelemetryPacket(n)), DevSessionKey,
                     ListeningKeys.iv).data
    IN  CASE kind = "crc" -> CorruptCrc(frame)
          [] kind = "prefix" -> CorruptPrefix(frame)
          [] OTHER -> frame

RECURSIVE StreamFrom(_, _)
StreamFrom(ks, n) ==
    IF n > Len(ks) THEN <<>> ELSE StreamFrame(n, ks[n]) \o StreamFrom(ks, n + 1)

\* The bytes of the stream whose frames are of the kinds ks.
Stream(ks) == StreamFrom(ks, 1)

\* The streams of the model: up to MaxFrames frames, at most one of them bad.
Scenarios ==
    UNION {{ks \in [1..n -> {"ok", "crc", "prefix"}] :
               Cardinality({i \in 1..n : ks[i] # "ok"}) <= 1} : n \in 1..MaxFrames}

\* The inner frames of the first n frames of the stream that are valid.
RECURSIVE ValidUpTo(_, _)
ValidUpTo(ks, n) ==
    IF n = 0 THEN <<>>
    ELSE ValidUpTo(ks, n - 1)
         \o (IF ks[n] = "ok" THEN <<TelemetryPacket(n)>> ELSE <<>>)

\* The state of a connection whose handshake succeeded, with a stream on its
\* way.
InitCodec ==
    /\ kinds \in Scenarios
    /\ hasClient = TRUE
    /\ link = TRUE
    /\ retry_on_disconnect = TRUE
    /\ disconnected_event = FALSE
    /\ enc_packet_buffer = <<>>
    /\ private_key = GeneratedKey(1)
    /\ shared_key = ListeningKeys.shared_key
    /\ iv = ListeningKeys.iv
    /\ session_key = DevSessionKey
    /\ notify = [handler |-> "listenForDataHandler",
                 chain |-> [att |-> 1, trail |-> FullTrail]]
    /\ tasks = <<>>
    /\ air = <<Msg(Stream(kinds), "", <<>>)>>
    /\ dev = [shared_key |-> ListeningKeys.shared_key, iv |-> ListeningKeys.iv,
              authed |-> TRUE]
    /\ calls = 1
    /\ disconnects = 0
    /\ drops = 0
    /\ faults = 0
    /\ frags = 0
    /\ pushes = 0
    /\ keyGen = 1
    /\ deliveries = 0
    /\ rx = <<>>
    /\ rxErr = {}
    /\ parseLog = {}
    /\ returned = {1}
    /\ raised = {}
    /\ aborted = {}
    /\ authLog = {}
    /\ callbackLog = {}
    /\ LibIdle

\* A notification with the next k bytes of the stream.
Deliver(k) ==
    /\ air # <<>>
    /\ frags < MaxCuts \/ k = Len(Head(air).data)
    /\ Notify(k)

NextCodec ==
    /\ air # <<>>
    /\ \E k \in 1..Len(Head(air).data) : Deliver(k)
    /\ UNCHANGED libVars

SpecCodec == InitCodec /\ [][NextCodec]_vars

(***************************************************************************)
(* The decoder: fragmentation, bad frames, the partial-frame buffer        *)
(***************************************************************************)
\* The whole stream has been delivered in n notifications.
DeliveredIn(n) == air = <<>> /\ deliveries = n

\* C7, as stated: the bytes of two valid frames delivered in two non-empty
\* parts A then B yield, over the two calls of parseEncPackets, the two inner
\* frames in order, without an exception, and leave the buffer empty.
C7_SplitDecodesBoth ==
    (kinds = <<"ok", "ok">> /\ DeliveredIn(2))
        => /\ rx = ValidUpTo(kinds, 2)
           /\ rxErr = {}
           /\ enc_packet_buffer = <<>>

\* The first part was shorter than eight bytes: the call on it raised, its
\* bytes were dropped, and the call on the rest decoded nothing.
C7_Failure ==
    /\ kinds = <<"ok", "ok">>
    /\ DeliveredIn(2)
    /\ rxErr = {"TypeError"}
    /\ rx = <<>>

\* C8, as stated: a delivery of several frames of which exactly one has a
\* wrong CRC16 is decoded without an exception, and every other frame is
\* returned, in stream order.
C8_BadCrcSkipped ==
    (Len(kinds) > 1 /\ (\E i \in 1..Len(kinds) : kinds[i] = "crc")
     /\ DeliveredIn(1))
        => /\ rxErr = {}
           /\ rx = ValidUpTo(kinds, Len(kinds))

\* A valid frame followed by one with a wrong CRC16, delivered at once: the
\* call raised NameError and returned nothing.
C8_Failure ==
    /\ kinds = <<"ok", "crc">>
    /\ DeliveredIn(1)
    /\ rxErr = {"NameError"}
    /\ rx = <<>>

\* The position of the frame that fails the prefix check, 0 if there is none.
BadPrefixAt ==
    IF \E i \in 1..Len(kinds) : kinds[i] = "prefix"
    THEN CHOOSE i \in 1..Len(kinds) : kinds[i] = "prefix"
    ELSE 0

\* C9, as stated: in a delivery of several frames of which one fails the
\* prefix check, only that frame is skipped: the valid frames after it are
\* decoded and returned as well.
C9_BadPrefixSkipped ==
    (Len(kinds) > 1 /\ BadPrefixAt > 0 /\ DeliveredIn(1))
        => rx = ValidUpTo(kinds, Len(kinds))

\* C9, amended: in a delivery of several frames of which one fails the prefix
\* check, decoding stops at that frame without an exception: the frames
\* before it are returned in order, the frames after it are discarded, and
\* nothing is buffered.
C9_BadPrefixStops ==
    (Len(kinds) > 1 /\ BadPrefixAt > 0 /\ DeliveredIn(1))
        => /\ rx = ValidUpTo(kinds, BadPrefixAt - 1)
           /\ rxErr = {}
           /\ enc_packet_buffer = <<>>

\* A valid frame, then a frame with a wrong prefix, delivered at once: the
\* first frame was returned.
C9_Witness ==
    /\ kinds = <<"ok", "prefix">>
    /\ DeliveredIn(1)
    /\ rx = <<TelemetryPacket(1)>>

\* C10, as stated: the partial-frame buffer is empty, or it starts with 5A 5A
\* and its length field exceeds the number of bytes buffered.
C10_LengthFieldExceeds ==
    \/ enc_packet_buffer = <<>>
    \/ /\ Len(enc_packet_buffer) >= 6
       /\ StartsWith(enc_packet_buffer, ENC_PREFIX)
       /\ UnpackH(Slice(enc_packet_buffer, 4, 6)) > Len(enc_packet_buffer)

\* C10, amended: the partial-frame buffer is empty, or it is the beginning of
\* one frame that is not complete: it holds the six header bytes, starts with
\* 5A 5A, and the end of the frame its length field declares (6 + length)
\* lies beyond the bytes buffered.
C10_BufferIsProperPrefix ==
    \/ enc_packet_buffer = <<>>
    \/ /\ Len(enc_packet_buffer) >= 6
       /\ StartsWith(enc_packet_buffer, ENC_PREFIX)
       /\ 6 + UnpackH(Slice(enc_packet_buffer, 4, 6)) > Len(enc_packet_buffer)

\* A second delivery has left a frame in the buffer that lacks only bytes of
\* its checksum.
C10_Witness ==
    /\ deliveries = 2
    /\ air # <<>>
    /\ Len(enc_packet_buffer) >= 6
    /\ Len(enc_packet_buffer) > 6 + UnpackH(Slice(enc_packet_buffer, 4, 6)) - 2

(***************************************************************************)
(* The connection: handshake order, failures, reconnection, disconnect     *)
(***************************************************************************)
Listening == notify.handler = "listenForDataHandler"

\* C1: data_parse is invoked only while the listening callback is subscribed,
\* and that callback is subscribed only by an attempt that went, in this
\* order, through KeyExchange, SharedKeySet, KeyInfoRequested,
\* SessionKeyDerived, AuthStatusRequested, AuthSent and Authenticated.
C1_ParserOnlyInListening ==
    /\ [](Listening => notify.chain.trail = FullTrail)
    /\ [](\A c \in parseLog : c.trail = FullTrail)
    /\ [][rx' # rx => Listening /\ notify.chain.trail = FullTrail]_vars

\* A telemetry frame reached data_parse.
C1_Witness ==
    /\ Listening
    /\ rx = <<TelemetryPacket(1)>>
    /\ parseLog = {[att |-> 1, trail |-> FullTrail]}

\* C2: the authentication handler goes on to listenForData exactly when the
\* payload of the first inner frame it decoded is the single byte 00; for the
\* device's response arrived whole, exactly when the device answered 00; and
\* an attempt whose response carried another payload is aborted: it never
\* subscribes the listening callback and forwards nothing to data_parse.
C2_ListeningIffZero ==
    \A e \in authLog :
        /\ e.entered <=> e.first = <<(<<0>>)>>
        /\ e.re = "autoAuthenticationHandler" /\ e.whole
               => (e.entered <=> e.p = <<0>>)
        /\ e.re = "autoAuthenticationHandler"
           /\ e.first \notin {<<>>, <<(<<0>>)>>}
               => /\ ~e.entered
                  /\ ~(Listening /\ notify.chain.att = e.att)
                  /\ \A c \in parseLog : c.att # e.att

\* After overlapping connect() calls the device rejected the authentication
\* with 01, yet the connection is Listening for that attempt.
C2_Failure ==
    \E e \in authLog :
        /\ e.re = "autoAuthenticationHandler"
        /\ e.first = <<(<<1>>)>>
        /\ ~e.entered
        /\ Listening
        /\ notify.chain.att = e.att

\* C3, as stated: connect() never returns successfully for an attempt whose
\* handshake was aborted.
C3_AbortSurfaces == \A a \in aborted : a \notin returned

\* connect() returned for attempt 1, nothing was raised, and the handshake
\* of attempt 1 was aborted by a bad answer.
C3_Failure ==
    /\ 1 \in aborted
    /\ 1 \in returned
    /\ raised = {}
    /\ faults = 1

\* No coroutine is suspended and no message is on its way: nothing happens
\* any more unless the caller, the transport or the device starts it.
Quiescent == tasks = <<>> /\ air = <<>>

\* C4, as stated: after a disconnect nobody asked for, reported with the
\* retry flag set, and with the transport and the device cooperating and the
\* caller idle ever since, the connection does not come to rest before it
\* is Listening again.
C4_ListeningAgain ==
    \A e \in callbackLog :
        (~e.explicit /\ e.retry /\ e.events = Events /\ Quiescent) => Listening

\* After a cut message and a drop the reconnection came to rest with its
\* handshake aborted.
C4_Failure ==
    /\ Quiescent
    /\ ~Listening
    /\ frags = 1
    /\ 2 \in aborted
    /\ callbackLog = {[explicit |-> FALSE, retry |-> TRUE, events |-> Events]}

\* C5, as stated: the disconnect callback caused by an explicit disconnect()
\* always observes the retry flag cleared.
C5_ExplicitSeesCleared == \A e \in callbackLog : e.explicit => ~e.retry

\* The callback of an explicit disconnect saw the flag set and scheduled a
\* connect(); the disconnected event is not set.
C5_Failure ==
    /\ callbackLog = {[explicit |-> TRUE, retry |-> TRUE, events |-> Events]}
    /\ \E i \in 1..Len(tasks) : tasks[i].kind = "connect" /\ tasks[i].pc = "created"
    /\ ~disconnected_event

\* The handshake attempts that have a coroutine suspended or a response
\* handler subscribed.
Attempts ==
    ({tasks[i].chain.att : i \in 1..Len(tasks)} \ {0})
    \cup (IF notify.handler \in {"", "listenForDataHandler"} THEN {}
          ELSE {notify.chain.att})

\* C6, as stated: two handshake attempts never run interleaved on the same
\* Connection.
C6_OneAttempt == Cardinality(Attempts) <= 1

\* The key-exchange requests of two attempts are both being written.
C6_Failure ==
    \E i, j \in 1..Len(tasks) :
        /\ tasks[i].pc = "write"
        /\ tasks[j].pc = "write"
        /\ tasks[i].next = "initBleSessionKeyHandler"
        /\ tasks[j].next = "initBleSessionKeyHandler"
        /\ tasks[i].chain.att # tasks[j].chain.att

(***************************************************************************)
(* Calls into the library outside a Connection.  The outer-frame encoder:  *)
(* EncPacket.toBytes with and without key and IV, and the decoder's steps  *)
(* on the frame it produced.                                               *)
(***************************************************************************)
\* The longest plaintext of the encoder runs: two blocks and a byte.
MaxPlain == 33

\* The plaintexts of the encoder runs: every length up to MaxPlain, and the
\* serialisation of an inner frame.
Plains ==
    {[i \in 1..n |-> (f + 7 * i) % 256] : n \in 0..MaxPlain, f \in {0, 90, 255}}
        \cup {PacketToBytes(TelemetryPacket(1))}

\* What get_random_bytes(16) may return.
RandomIvs == {[i \in 1..BlockSize |-> (r * i + 1) % 256] : r \in {1, 3}}

\* Lines 194-211 of Connection.parseEncPackets on the bytes of one complete
\* frame: header split, CRC16 check, decryptSession.
decodePayload(data, key, iv_) ==
    IF Len(data) < 6 THEN [ok |-> FALSE, data |-> <<>>]
    ELSE LET header == Slice(data, 0, 6)
             data_end == 6 + UnpackH(Slice(header, 4, 6))
             payload_data == Slice(data, 6, data_end - 2)
             payload_crc == Slice(data, data_end - 2, data_end)
         IN  IF data_end > Len(data) THEN [ok |-> FALSE, data |-> <<>>]
             ELSE IF crc16(header \o payload_data) # UnpackH(payload_crc)
             THEN [ok |-> FALSE, data |-> <<>>]
             ELSE decrypt(key, iv_, payload_data)

\* EncPacket(FRAME_TYPE_PROTOCOL, ..., payload, 0, 0, 0, enc_key, iv).toBytes()
EncodeCall(payload, enc_key, iv_, rnd) ==
    /\ call.op = ""
    /\ call' = [op |-> "EncPacket.toBytes", payload |-> payload,
                enc_key |-> enc_key, iv |-> iv_]
    /\ result' = EncPacketToBytesWith(FRAME_TYPE_PROTOCOL, payload, enc_key,
                                      iv_, rnd)
    /\ UNCHANGED <<sessionVars, device, callbacks>>

\* A Connection holding the same key and IV decodes the frame.
DecodeCall ==
    /\ call.op = "EncPacket.toBytes"
    /\ result.ok
    /\ call.enc_key # None
    /\ call.iv # None
    /\ call' = [call EXCEPT !.op = "parseEncPackets"]
    /\ result' = [frame |-> result.data,
                  payload |-> decodePayload(result.data, call.enc_key, call.iv),
                  parsed |-> parseEncPackets(<<>>, result.data, call.enc_key,
                                             call.iv)]
    /\ UNCHANGED <<sessionVars, device, callbacks>>

\* C11, as stated: the encoder encrypts the payload exactly when both key and
\* IV are given; with neither or only one of them given it raises nothing and
\* the frame carries the payload as it is.
C11_EncryptsIffBoth ==
    call.op = "EncPacket.toBytes" =>
        /\ result.ok
        /\ SubSeq(result.data, 7, Len(result.data) - 2) =
               IF call.enc_key # None /\ call.iv # None
               THEN AesCbcEncrypt(call.enc_key, call.iv, pad(call.payload))
               ELSE call.payload

\* An IV without a key: toBytes raised.
C11_Failure ==
    /\ call.op = "EncPacket.toBytes"
    /\ call.enc_key = None
    /\ call.iv = ListeningKeys.iv
    /\ ~result.ok

\* C14: the frame that toBytes builds from a plaintext under a key and an IV,
\* decoded under the same key and IV (header split, CRC16 check, AES-CBC
\* decrypt, unpad), gives the plaintext back; parseEncPackets hands that
\* plaintext to Packet.fromBytes, raises nothing and buffers nothing.
C14_EncRoundTrip ==
    call.op = "parseEncPackets" =>
        /\ result.payload = [ok |-> TRUE, data |-> call.payload]
        /\ result.parsed = [err |-> "",
                            packets |-> PacketFromBytes(call.payload),
                            buffer |-> <<>>]

\* The 22 bytes of an inner frame went out as two cipher blocks and came
\* back as the same inner frame.
C14_Witness ==
    /\ call.op = "parseEncPackets"
    /\ call.payload = PacketToBytes(TelemetryPacket(1))
    /\ Len(result.frame) = 6 + 2 * BlockSize + 2
    /\ result.payload.data = call.payload
    /\ result.parsed.packets = <<TelemetryPacket(1)>>

(***************************************************************************)
(* The inner frame on its own: Packet.toBytes and Packet.fromBytes         *)
(***************************************************************************)
\* The inner frames serialised: versions 2, 3 and 19, payloads empty, short
\* and ending in BB BB, sequence numbers of one to four bytes, product ids
\* negative, zero and positive.
Packets ==
    {Packet(a[1], a[2], a[3], a[4], payload, a[5], a[6], version, seq, product_id) :
        a \in {<<11, 33, 12, 1, 1, 1>>, <<255, 0, 254, 32, 2, 3>>},
        payload \in {<<>>, <<5>>, <<1, 2, 187, 187>>},
        version \in {2, 3, 19},
        seq \in {0, 1, 16909060},
        product_id \in {-1, 0, 5}}

\* The bytes handed to fromBytes: a serialised frame as it is, cut to 19
\* bytes, without its last byte, or with one byte changed in the prefix, in
\* the header checksum or in the frame checksum; or with a payload length
\* field that says 2 or 9 bytes more than the frame has, both checksums
\* computed over the frame with that field.
Damaged(data, kind) ==
    CASE kind = "short" -> SubSeq(data, 1, 19)
      [] kind \in {"len+2", "len+9"} ->
            LET n == UnpackH(Slice(data, 2, 4)) + (IF kind = "len+2" THEN 2 ELSE 9)
                hdr == Slice(data, 0, 2) \o PackH(n)
                body == hdr \o <<crc8(hdr)>> \o Slice(data, 5, Len(data) - 2)
            IN  body \o PackH(crc16(body))
      [] kind = "cut" -> SubSeq(data, 1, Len(data) - 1)
      [] kind = "prefix" -> [data EXCEPT ![1] = 171]
      [] kind = "crc8" -> [data EXCEPT ![5] = (@ + 1) % 256]
      [] kind = "crc16" -> [data EXCEPT ![Len(data)] = (@ + 1) % 256]
      [] OTHER -> data

\* pkt.toBytes()
ToBytesCall(pkt) ==
    /\ call.op = ""
    /\ call' = [op |-> "Packet.toBytes", pkt |-> pkt]
    /\ result' = PacketToBytes(pkt)
    /\ UNCHANGED <<sessionVars, device, callbacks>>

\* Packet.fromBytes on the bytes toBytes returned, damaged or not.
FromBytesCall(kind) ==
    /\ call.op = "Packet.toBytes"
    /\ call' = [op |-> "Packet.fromBytes", pkt |-> call.pkt, kind |-> kind,
                data |-> Damaged(result, kind)]
    /\ result' = PacketFromBytes(Damaged(result, kind))
    /\ UNCHANGED <<sessionVars, device, callbacks>>

\* C12: Packet.fromBytes returns a frame exactly when its input has at least
\* 20 bytes, starts with AA, has byte 4 equal to the CRC8 of bytes 0..3 and,
\* only when the version byte is 3, ends with the CRC16 of all bytes before;
\* otherwise it returns no frame.
C12_FrameIffWellFormed ==
    call.op = "Packet.fromBytes" =>
        LET d == call.data
        IN  result # <<>> <=>
                /\ Len(d) >= 20
                /\ d[1] = 170
                /\ d[5] = Crc8From(SubSeq(d, 1, 4), 1, 0)
                /\ d[2] = 3 =>
                       SubSeq(d, Len(d) - 1, Len(d))
                           = PackH(Crc16From(SubSeq(d, 1, Len(d) - 2), 1, 0))

\* A frame of version 19 whose last byte was changed is returned all the same.
C12_Witness ==
    /\ call.op = "Packet.fromBytes"
    /\ call.kind = "crc16"
    /\ call.pkt.version = 19
    /\ Len(result) = 1
    /\ result[1].cmd_id = call.pkt.cmd_id

\* C13, as stated: Packet.fromBytes(frame.toBytes()) of a frame of version 3
\* has all the fields of the frame, the product id included.
C13_AllFieldsBack ==
    (call.op = "Packet.fromBytes" /\ call.kind = "asis" /\ call.pkt.version = 3)
        => result = <<call.pkt>>

\* C13, amended: Packet.fromBytes(frame.toBytes()) of a frame of version 3
\* has the src, dst, dsrc, ddst, cmd_set, cmd_id, version, seq and payload of
\* the frame, and product id 0 whatever the product id of the frame was.
C13_WireFieldsBack ==
    (call.op = "Packet.fromBytes" /\ call.kind = "asis" /\ call.pkt.version = 3)
        => result = <<[call.pkt EXCEPT !.product_id = 0]>>

\* A frame with a negative product id, a four-byte sequence number and a
\* payload came back with product id 0.
C13_Witness ==
    /\ call.op = "Packet.fromBytes"
    /\ call.kind = "asis"
    /\ call.pkt.version = 3
    /\ call.pkt.product_id = -1
    /\ call.pkt.seq = 16909060
    /\ call.pkt.payload = <<1, 2, 187, 187>>
    /\ result = <<[call.pkt EXCEPT !.product_id = 0]>>

(***************************************************************************)
(* Device dispatch: NewDevice and the device variants                      *)
(***************************************************************************)
\* DeviceBase.MANUFACTURER_KEY
MANUFACTURER_KEY == 46517

\* shp2.Device.NUM_OF_CIRCUITS and NUM_OF_CHANNELS
NUM_OF_CIRCUITS == 12

NUM_OF_CHANNELS == 3

\* The device modules found in eflib.devices, in the order of its __dict__.
DeviceModules == <<"shp2", "dpu">>

\* Device.SN_PREFIX of a device module: b'HD31' and b'Y711'.
SN_PREFIX(module) ==
    IF module = "shp2" THEN <<72, 68, 51, 49>> ELSE <<89, 55, 49, 49>>

\* item.Device(ble_dev, adv_data, sn): DeviceBase.__init__ and, for shp2,
\* Device.__init__.  An attribute that is None is <<>>, a value v is <<v>>.
CreateDevice(module, sn) ==
    IF module = "shp2"
    THEN [variant |-> module, sn |-> sn,
          circuit_power |-> [i \in 1..NUM_OF_CIRCUITS |-> <<>>],
          circuit_current |-> [i \in 1..NUM_OF_CIRCUITS |-> <<>>],
          grid_power |-> <<>>,
          in_use_power |-> <<>>,
          channel_power |-> [i \in 1..NUM_OF_CHANNELS |-> <<>>],
          error_count |-> 0,
          battery_level |-> <<>>]
    ELSE [variant |-> module, sn |-> sn]

\* NewDevice(ble_dev, adv_data): err is the exception raised, "" for none;
\* dev is <<>> for None and <<device>> otherwise.  sn.decode('ASCII') raises
\* UnicodeDecodeError on a byte above 127.
NewDevice(adv_data) ==
    IF MANUFACTURER_KEY \notin DOMAIN adv_data.manufacturer_data
    THEN [err |-> "", dev |-> <<>>]
    ELSE LET man_data == adv_data.manufacturer_data[MANUFACTURER_KEY]
             sn == Slice(man_data, 1, 17)
             found == {k \in 1..Len(DeviceModules) :
                          StartsWith(sn, SN_PREFIX(DeviceModules[k]))}
         IN  IF found = {} THEN [err |-> "", dev |-> <<>>]
             ELSE IF \E i \in 1..Len(sn) : sn[i] > 127
             THEN [err |-> "UnicodeDecodeError", dev |-> <<>>]
             ELSE LET first == CHOOSE k \in found : \A j \in found : k <= j
                  IN  [err |-> "", dev |-> <<CreateDevice(DeviceModules[first], sn)>>]

\* The manufacturer data entries of the advertisements: an offset byte and a
\* serial number of a known variant (16 bytes, with bytes after it, or only
\* the prefix), of no variant, shorter than a prefix, with a byte that is not
\* ASCII, a serial number without the offset byte, and an empty entry.
ManData ==
    LET tail == [i \in 1..12 |-> 48 + (i % 10)]
    IN  {<<0>> \o SN_PREFIX("shp2") \o tail,
         <<0>> \o SN_PREFIX("dpu") \o tail \o <<1, 2>>,
         <<7>> \o SN_PREFIX("dpu"),
         <<0, 90, 90, 57, 57>> \o tail,
         <<0, 72, 68, 51>>,
         <<0>> \o SN_PREFIX("shp2") \o <<50, 200>> \o tail,
         SN_PREFIX("dpu") \o tail,
         <<>>}

\* The advertisements: no manufacturer data, an entry under the key, an entry
\* under another company's key, or both.
Adverts ==
    {[manufacturer_data |-> m] :
        m \in {<<>>} \cup {MANUFACTURER_KEY :> d : d \in ManData}
              \cup {76 :> d : d \in {<<0>> \o SN_PREFIX("shp2")}}
              \cup {(76 :> <<2, 21>>) @@ (MANUFACTURER_KEY :> d) :
                        d \in {<<0>> \o SN_PREFIX("dpu")}}}

\* The callbacks a caller may register.
CallbackIds == {"a", "b"}

\* NewDevice(ble_dev, adv_data).  history counts, for the Device created, the
\* registrations of each callback, the last call made for it, the
\* register/remove calls and the data_parse calls.
NewDeviceCall(adv_data) ==
    /\ call.op = ""
    /\ call' = [op |-> "NewDevice", adv_data |-> adv_data,
                history |-> [regs |-> [cb \in CallbackIds |-> 0],
                             last |-> [cb \in CallbackIds |-> ""],
                             ops |-> 0, parses |-> 0]]
    /\ result' = NewDevice(adv_data)
    /\ device' = IF NewDevice(adv_data).dev = <<>> THEN device
                 ELSE NewDevice(adv_data).dev[1]
    /\ callbacks' = {}
    /\ UNCHANGED sessionVars

\* C15, as stated: NewDevice returns a device of variant V exactly when the
\* advertisement has manufacturer data under 0xB5B5 whose bytes [1:17) start
\* with the serial prefix of V; otherwise it returns no device.
C15_DeviceIffPrefix ==
    call.op = "NewDevice" =>
        /\ result.err = ""
        /\ \A k \in 1..Len(DeviceModules) :
               (result.dev # <<>> /\ result.dev[1].variant = DeviceModules[k])
                   <=> /\ MANUFACTURER_KEY \in DOMAIN call.adv_data.manufacturer_data
                       /\ StartsWith(
                              Slice(call.adv_data.manufacturer_data[MANUFACTURER_KEY],
                                    1, 17),
                              SN_PREFIX(DeviceModules[k]))

\* A serial number that starts with HD31 and holds a byte above 127: NewDevice
\* raised and returned nothing.
C15_Failure ==
    /\ call.op = "NewDevice"
    /\ MANUFACTURER_KEY \in DOMAIN call.adv_data.manufacturer_data
    /\ StartsWith(Slice(call.adv_data.manufacturer_data[MANUFACTURER_KEY], 1, 17),
                  SN_PREFIX("shp2"))
    /\ result = [err |-> "UnicodeDecodeError", dev |-> <<>>]

(***************************************************************************)
(* The Smart Home Panel 2: callbacks and data_parse.  The message parsed   *)
(* from packet.payload() is a record; a message field that is not set is   *)
(* <<>>, a set one is <<value>>, a repeated field is the list of its        *)
(* entries.                                                                *)
(***************************************************************************)
\* The data_parse calls and the register/remove calls on one Device.
MaxParses == 2

MaxCallbackOps == 2

DiffersAlways(stored, v) == TRUE

\* `self._data_x != v` for an attribute that is None or a value.
Differs(stored, v) == stored # <<v>>

\* A loop over the entries that also clears the attributes after the last.
StoreListClearsRest(stored, values) ==
    [i \in DOMAIN stored |-> IF i <= Len(values) THEN <<values[i]>> ELSE <<>>]

\* for i, v in enumerate(values): self._data_x[i] = v (where they differ)
StoreList(stored, values) ==
    [i \in DOMAIN stored |-> IF i <= Len(values) THEN <<values[i]>> ELSE stored[i]]

IsErrorAny(e) == TRUE

\* The test of line 122: e is not the all-zero entry.
IsError(e) == e # <<0, 0, 0, 0, 0, 0, 0, 0>>

\* Device.error_happened
error_happened(d) == d.error_count > 0

\* Device.data_parse(packet) up to line 136, on the device d:
\*   dev        the device afterwards
\*   updated    the local of that name
\*   processed  the value returned
\* A device of another variant runs DeviceBase.data_parse.
data_parse(d, packet) ==
    LET p == packet.p
        ListUpdated(stored, values) ==
            \E i \in 1..Len(values) : Differs(stored[i], values[i])
        no == [dev |-> d, updated |-> FALSE, processed |-> FALSE]
    IN  IF d.variant # "shp2" THEN no
        ELSE IF ~(packet.src = 11 /\ packet.cmd_set = 12) THEN no
        ELSE IF packet.cmd_id = 1
        THEN LET has_load == p.load_info # <<>>
                 has_watt == p.watt_info # <<>>
                 li == p.load_info[1]
                 wi == p.watt_info[1]
                 d1 == IF has_load
                       THEN [d EXCEPT
                               !.circuit_power = StoreList(@, li.hall1_watt),
                               !.circuit_current = StoreList(@, li.hall1_curr)]
                       ELSE d
                 u1 == has_load
                       /\ \/ ListUpdated(d.circuit_power, li.hall1_watt)
                          \/ ListUpdated(d.circuit_current, li.hall1_curr)
                 d2 == IF has_watt
                       THEN [d1 EXCEPT
                               !.grid_power = IF wi.grid_watt # <<>>
                                              THEN wi.grid_watt ELSE <<0>>,
                               !.channel_power = StoreList(@, wi.ch_watt),
                               !.in_use_power = IF wi.all_hall_watt # <<>>
                                                THEN wi.all_hall_watt ELSE @]
                       ELSE d1
                 u2 == has_watt
                       /\ \/ IF wi.grid_watt # <<>>
                             THEN Differs(d.grid_power, wi.grid_watt[1])
                             ELSE Differs(d.grid_power, 0)
                          \/ ListUpdated(d.channel_power, wi.ch_watt)
                          \/ /\ wi.all_hall_watt # <<>>
                             /\ Differs(d.in_use_power, wi.all_hall_watt[1])
             IN  [dev |-> d2, updated |-> u1 \/ u2, processed |-> TRUE]
        ELSE IF packet.cmd_id = 32
        THEN IF p.backup_incre_info = <<>> THEN no
             ELSE LET info == p.backup_incre_info[1]
                      errors == SelectSeq(info.errcode[1].err_code, IsError)
                      u1 == info.errcode # <<>>
                            /\ Differs(<<d.error_count>>, Len(errors))
                      d1 == IF info.errcode # <<>>
                            THEN [d EXCEPT !.error_count = Len(errors)]
                            ELSE d
                      u2 == info.backup_bat_per # <<>>
                            /\ Differs(d.battery_level, info.backup_bat_per[1])
                      d2 == IF info.backup_bat_per # <<>>
                            THEN [d1 EXCEPT !.battery_level = info.backup_bat_per]
                            ELSE d1
                  IN  [dev |-> d2, updated |-> u1 \/ u2, processed |-> TRUE]
        ELSE no

\* The inner frames handed to data_parse: time frames (cmd_id 01) with load
\* info, watt info, both or neither, with and without a grid-watt value;
\* backup-increment frames (cmd_id 20) with and without an error-code list
\* and a battery percentage; frames of another source or command.
Messages ==
    LET Time(load, watt) ==
            [src |-> 11, cmd_set |-> 12, cmd_id |-> 1,
             p |-> [load_info |-> load, watt_info |-> watt]]
        Load(w, a) == <<[hall1_watt |-> w, hall1_curr |-> a]>>
        Watt(g, c, a) == <<[grid_watt |-> g, ch_watt |-> c, all_hall_watt |-> a]>>
        Backup(info) ==
            [src |-> 11, cmd_set |-> 12, cmd_id |-> 32,
             p |-> [backup_incre_info |-> info]]
        Info(e, b) == <<[errcode |-> e, backup_bat_per |-> b]>>
        Z == <<0, 0, 0, 0, 0, 0, 0, 0>>
        E == <<0, 0, 0, 0, 0, 0, 1, 4>>
    IN  {Time(Load(<<5>>, <<2>>), <<>>),
         Time(Load(<<5, 0>>, <<>>), <<>>),
         Time(<<>>, Watt(<<5>>, <<>>, <<>>)),
         Time(<<>>, Watt(<<0>>, <<>>, <<>>)),
         Time(<<>>, Watt(<<>>, <<>>, <<>>)),
         Time(<<>>, Watt(<<>>, <<7>>, <<9>>)),
         Time(Load(<<>>, <<2, 3>>), Watt(<<5>>, <<7, 0, 1>>, <<>>)),
         Time(<<>>, <<>>),
         Backup(<<>>),
         Backup(Info(<<[err_code |-> <<>>]>>, <<>>)),
         Backup(Info(<<[err_code |-> <<Z>>]>>, <<80>>)),
         Backup(Info(<<[err_code |-> <<E, Z, E>>]>>, <<>>)),
         Backup(Info(<<[err_code |-> <<<<0, 0, 0, 0>>>>]>>, <<>>)),
         Backup(Info(<<>>, <<80>>)),
         Backup(Info(<<>>, <<0>>)),
         [Time(Load(<<5>>, <<2>>), <<>>) EXCEPT !.cmd_id = 2],
         [Time(Load(<<5>>, <<2>>), <<>>) EXCEPT !.src = 2]}


\* self._callbacks.add(callback)
RegisterCallback(cb) ==
    /\ device.variant # ""
    /\ call.history.ops < MaxCallbackOps
    /\ callbacks' = callbacks \cup {cb}
    /\ call' = [op |-> "register_callback", cb |-> cb,
                history |-> [call.history EXCEPT !.regs[cb] = @ + 1,
                                                 !.last[cb] = "register",
                                                 !.ops = @ + 1]]
    /\ result' = [ok |-> TRUE]
    /\ UNCHANGED <<sessionVars, device>>

\* self._callbacks.discard(callback)
RemoveCallback(cb) ==
    /\ device.variant # ""
    /\ call.history.ops < MaxCallbackOps
    /\ callbacks' = callbacks \ {cb}
    /\ call' = [op |-> "remove_callback", cb |-> cb,
                history |-> [call.history EXCEPT !.last[cb] = "remove",
                                                 !.ops = @ + 1]]
    /\ result' = [ok |-> TRUE]
    /\ UNCHANGED <<sessionVars, device>>

\* await device.data_parse(packet): the attributes are updated and, if
\* updated is set, every callback of self._callbacks is called (lines
\* 137-139); invoked counts the calls of each callback.
DataParse(packet) ==
    /\ device.variant # ""
    /\ call.history.parses < MaxParses
    /\ LET r == data_parse(device, packet)
       IN  /\ device' = r.dev
           /\ result' = [processed |-> r.processed,
                         invoked |-> [cb \in CallbackIds |->
                                         IF r.updated /\ cb \in callbacks
                                         THEN 1 ELSE 0]]
    /\ call' = [op |-> "data_parse", packet |-> packet, before |-> device,
                history |-> [call.history EXCEPT !.parses = @ + 1]]
    /\ UNCHANGED <<sessionVars, callbacks>>

C17_FrameEffect(gridReset) ==
    (call.op = "data_parse" /\ call.before.variant = "shp2") =>
        LET m == call.packet
            b == call.before
            time == m.src = 11 /\ m.cmd_set = 12 /\ m.cmd_id = 1
            backup == m.src = 11 /\ m.cmd_set = 12 /\ m.cmd_id = 32
            load == IF time THEN m.p.load_info ELSE <<>>
            watt == IF time THEN m.p.watt_info ELSE <<>>
            info == IF backup THEN m.p.backup_incre_info ELSE <<>>
            Entries(msg, f) == IF msg = <<>> THEN <<>> ELSE msg[1][f]
            Kept(stored, values) ==
                [i \in DOMAIN stored |->
                    IF i <= Len(values) THEN <<values[i]>> ELSE stored[i]]
            Opt(stored, value) == IF value = <<>> THEN stored ELSE value
            codes == Entries(Entries(info, "errcode"), "err_code")
            expected ==
                [b EXCEPT
                   !.circuit_power = Kept(@, Entries(load, "hall1_watt")),
                   !.circuit_current = Kept(@, Entries(load, "hall1_curr")),
                   !.grid_power =
                       IF gridReset /\ watt # <<>> /\ watt[1].grid_watt = <<>>
                       THEN <<0>>
                       ELSE Opt(@, Entries(watt, "grid_watt")),
                   !.channel_power = Kept(@, Entries(watt, "ch_watt")),
                   !.in_use_power = Opt(@, Entries(watt, "all_hall_watt")),
                   !.error_count =
                       IF Entries(info, "errcode") = <<>> THEN @
                       ELSE Cardinality({i \in 1..Len(codes) :
                                \E k \in 1..Len(codes[i]) : codes[i][k] # 0
                                \/ Len(codes[i]) # 8}),
                   !.battery_level = Opt(@, Entries(info, "backup_bat_per"))]
        IN  /\ device = expected
            /\ (\E cb \in CallbackIds : result.invoked[cb] > 0) => expected # b

C19_ErrorCount ==
    (call.op = "data_parse" /\ call.before.variant = "shp2"
     /\ call.packet.src = 11 /\ call.packet.cmd_set = 12
     /\ call.packet.cmd_id = 32) =>
        LET info == call.packet.p.backup_incre_info
        IN  IF info # <<>> /\ info[1].errcode # <<>>
            THEN LET codes == info[1].errcode[1].err_code
                     n == Cardinality({i \in 1..Len(codes) :
                              codes[i] # [k \in 1..8 |-> 0]})
                 IN  /\ device.error_count = n
                     /\ error_happened(device) <=> n > 0
            ELSE device.error_count = call.before.error_count

\* A list of two error codes around one all-zero entry, after a frame that
\* had set the counter to 1: the counter is 2 and error_happened is true.
C19_Witness ==
    /\ call.op = "data_parse"
    /\ call.before.variant = "shp2"
    /\ call.packet.cmd_id = 32
    /\ call.packet.p.backup_incre_info # <<>>
    /\ call.packet.p.backup_incre_info[1].errcode # <<>>
    /\ Len(call.packet.p.backup_incre_info[1].errcode[1].err_code) = 3
    /\ call.before.error_count = 1
    /\ device.error_count = 2
    /\ error_happened(device)

(***************************************************************************)
(* The connection after disconnect(), and the key-info request             *)
(***************************************************************************)

\* C18, as stated: once an explicit disconnect() has completed (the client
\* has reported the link down with the retry flag cleared, nothing has been
\* called since and no coroutine is left), the partial-frame buffer is empty
\* and the key pair, the shared key, the IV and the session key are as in a
\* Connection just created.
C18_DisconnectResets ==
    \A e \in callbackLog :
        (e.explicit /\ ~e.retry /\ e.events = Events /\ Quiescent) =>
            /\ enc_packet_buffer = <<>>
            /\ private_key = 0
            /\ shared_key = <<>>
            /\ iv = <<>>
            /\ session_key = <<>>

\* disconnect() has completed on a session that was Listening and had
\* received the first part of a frame: the part is still in the buffer and
\* the keys of the session are still held.
C18_Failure ==
    /\ Quiescent
    /\ ~link
    /\ disconnected_event
    /\ callbackLog = {[explicit |-> TRUE, retry |-> FALSE, events |-> Events]}
    /\ frags = 1
    /\ enc_packet_buffer # <<>>
    /\ private_key = GeneratedKey(1)
    /\ IsKey(shared_key)
    /\ IsKey(iv)
    /\ session_key = DevSessionKey

\* The coroutines about to send, or sending, the key-info request.
C20_KeyInfoRequests ==
    {i \in 1..Len(tasks) : /\ tasks[i].next = "getKeyInfoReqHandler"
                           /\ tasks[i].pc \in {"start_notify", "write"}}

\* C20, as stated: the key-info request written in KeyInfoRequested is the
\* outer frame whose payload is the command byte 02 encrypted under the
\* shared key and IV set in SharedKeySet, never the plain byte.
C20_KeyInfoEncrypted ==
    \A i \in C20_KeyInfoRequests :
        /\ tasks[i].send = EncFrame(FRAME_TYPE_COMMAND,
                               AesCbcEncrypt(shared_key, iv, pad(<<2>>)))
        /\ tasks[i].send # EncFrame(FRAME_TYPE_COMMAND, <<2>>)

\* C20, amended: the key-info request written in KeyInfoRequested is the
\* outer command frame whose payload is the plain byte 02, although the
\* shared key and IV are set by then.
C20_KeyInfoPlain ==
    \A i \in C20_KeyInfoRequests :
        /\ tasks[i].send = EncFrame(FRAME_TYPE_COMMAND, <<2>>)
        /\ tasks[i].chain.trail = <<"KeyExchange", "SharedKeySet",
                                    "KeyInfoRequested">>
        /\ IsKey(shared_key)
        /\ IsKey(iv)

\* The request is being written: the frame 5A 5A 00 01 03 00 02 and its CRC.
C20_Witness ==
    \E i \in C20_KeyInfoRequests :
        /\ tasks[i].pc = "write"
        /\ Slice(tasks[i].send, 0, 7) = <<90, 90, 0, 1, 3, 0, 2>>
        /\ Len(tasks[i].send) = 9
        /\ IsKey(shared_key)

(***************************************************************************)
(* The curve size, the outer frame types and the inner frame checksum      *)
(***************************************************************************)

\* getEcdhTypeSize(curve_num), for the curve-type bytes 0..5 and 255.
EcdhTypeSizeCall(curve_num) ==
    /\ call.op = ""
    /\ call' = [op |-> "getEcdhTypeSize", curve_num |-> curve_num]
    /\ result' = [size |-> getEcdhTypeSize(curve_num)]
    /\ UNCHANGED <<sessionVars, device, callbacks>>

\* C24, as stated: the curve types 1, 2, 3 and 4 give the key lengths 52,
\* 56, 64 and 64, every other curve type gives 40.
C24_CurveSizes ==
    call.op = "getEcdhTypeSize" =>
        result.size = CASE call.curve_num = 1 -> 52
                        [] call.curve_num = 2 -> 56
                        [] call.curve_num = 3 -> 64
                        [] call.curve_num = 4 -> 64
                        [] OTHER -> 40

\* Curve type 3 gave 40.
C24_Failure ==
    /\ call.op = "getEcdhTypeSize"
    /\ call.curve_num = 3
    /\ result.size = 40

\* EncPacket(frame_type, PAYLOAD_TYPE_VX_PROTOCOL, payload, 0, 0, 0, enc_key,
\* iv).toBytes() for each frame type, with both key and IV or neither.
EncodeTypeCall(frame_type, payload, keys) ==
    /\ call.op = ""
    /\ call' = [op |-> "EncPacket(frame_type).toBytes",
                frame_type |-> frame_type, payload |-> payload, keys |-> keys]
    /\ result' = IF keys
                 THEN EncPacketToBytes(frame_type, payload,
                                       ListeningKeys.shared_key, ListeningKeys.iv)
                 ELSE EncPacketToBytes(frame_type, payload, None, None)
    /\ UNCHANGED <<sessionVars, device, callbacks>>

\* C25, as stated: for each of the three frame types and every payload
\* toBytes succeeds and returns 5A 5A, the byte frame_type << 4, the byte 01,
\* the little-endian length of the transmitted payload plus 2, the
\* transmitted payload and the CRC16 of all bytes before it.
C25_EncoderFormat ==
    call.op = "EncPacket(frame_type).toBytes" =>
        LET d == result.data
            sent == IF call.keys
                    THEN AesCbcEncrypt(ListeningKeys.shared_key,
                                       ListeningKeys.iv, pad(call.payload))
                    ELSE call.payload
        IN  /\ result.ok
            /\ Len(d) = 6 + Len(sent) + 2
            /\ d[1] = 90 /\ d[2] = 90
            /\ d[3] = call.frame_type * 16 /\ d[3] <= 255
            /\ d[4] = 1
            /\ d[5] + 256 * d[6] = Len(sent) + 2
            /\ SubSeq(d, 7, Len(d) - 2) = sent
            /\ d[Len(d) - 1] + 256 * d[Len(d)]
                   = Crc16From(SubSeq(d, 1, Len(d) - 2), 1, 0)

\* A protocol-internal frame with an empty payload: toBytes raised.
C25_Failure ==
    /\ call.op = "EncPacket(frame_type).toBytes"
    /\ call.frame_type = FRAME_TYPE_PROTOCOL_INT
    /\ call.payload = <<>>
    /\ ~call.keys
    /\ ~result.ok

\* C26, as stated: toBytes ends the inner frame with the CRC16 of the whole
\* frame exactly when the version is 3; the frame is 18 bytes and the
\* payload long, and 2 more only for version 3.
C26_Crc16OnlyVersion3 ==
    call.op = "Packet.toBytes" =>
        Len(result) = 18 + Len(call.pkt.payload)
                         + (IF call.pkt.version = 3 THEN 2 ELSE 0)

\* C26, amended: toBytes ends the inner frame with the CRC16 of all bytes
\* before it whatever the version; the frame is 18 bytes, the payload and 2
\* bytes long.
C26_Crc16EveryVersion ==
    call.op = "Packet.toBytes" =>
        /\ Len(result) = 18 + Len(call.pkt.payload) + 2
        /\ SubSeq(result, 19, Len(result) - 2) = call.pkt.payload
        /\ result[Len(result) - 1] + 256 * result[Len(result)]
               = Crc16From(SubSeq(result, 1, Len(result) - 2), 1, 0)

\* A frame of version 2 with a payload of four bytes is 24 bytes long.
C26_Witness ==
    /\ call.op = "Packet.toBytes"
    /\ call.pkt.version = 2
    /\ Len(call.pkt.payload) = 4
    /\ Len(result) = 24

(***************************************************************************)
(* The handshake responses, reconnection and waitDisconnect                *)
(***************************************************************************)

\* The coroutine t is getKeyInfoReqHandler about to read a response whose
\* first payload byte is not 02.
C21_BadTag(t) ==
    /\ t.pc = "stop_notify"
    /\ t.handler = "getKeyInfoReqHandler"
    /\ parseSimple(t.data).ok
    /\ Len(parseSimple(t.data).data) >= 1
    /\ parseSimple(t.data).data[1] # 2

\* C21, as stated: when getKeyInfoReqHandler reads a response whose first
\* byte is not 02, the handshake is aborted in that step: the session key is
\* left as it was, the attempt is recorded as aborted, nothing is subscribed,
\* and no coroutine of the attempt is left that will derive a session key and
\* go on to write the auth-status request and the credential.
C21_TagAbortsHandshake ==
    [][\A i \in 1..Len(tasks) :
          (C21_BadTag(tasks[i]) /\ StopNotifyDone(i)) =>
              /\ session_key' = session_key
              /\ tasks[i].chain.att \in aborted'
              /\ notify' = NoNotify
              /\ \A j \in 1..Len(tasks') :
                    tasks'[j].chain.att = tasks[i].chain.att =>
                        /\ tasks'[j].pc = "stop_notify"
                        /\ ~RunHandler(tasks'[j].handler, tasks'[j].data).ok]_vars

\* With two connect() calls under way, the second attempt was aborted by the
\* tag test on a key-exchange response that arrived late, and its handler,
\* run again for the key-info response, derived the session key and is
\* writing the auth-status request.
C21_Failure ==
    /\ calls = 2
    /\ faults = 0
    /\ frags = 0
    /\ aborted = {2}
    /\ session_key = DevSessionKey
    /\ \E i \in 1..Len(tasks) :
          /\ tasks[i].chain.att = 2
          /\ tasks[i].pc = "write"
          /\ tasks[i].next = "getAuthStatusHandler"

\* C27, as stated: once disconnect() has cleared the retry flag, the
\* Connection starts no connection attempt of its own: the task created by
\* disconnected() runs connect() only while the flag is still set, so it
\* never sets the flag again after a disconnect().
C27_NoAttemptAfterDisconnect ==
    [][(\E i \in 1..Len(tasks) : ConnectTaskStart(i)) =>
           retry_on_disconnect]_vars

\* disconnect() is still awaiting client.disconnect(), and the reconnect task
\* created by the drop before it has run connect(): the retry flag is set
\* again and the task is connecting.
C27_Failure ==
    /\ calls = 1
    /\ drops = 1
    /\ disconnects = 1
    /\ retry_on_disconnect
    /\ \E i, j \in 1..Len(tasks) :
          /\ tasks[i].kind = "disconnect"
          /\ tasks[i].pc = "client.disconnect"
          /\ tasks[j].kind = "connect"
          /\ tasks[j].origin = "reconnect"
          /\ tasks[j].pc = "client.connect"

\* C28, as stated: when a handshake attempt starts (the link is up and
\* connect() calls initBleSessionKey), the partial-frame buffer is empty.
C28_BufferEmptyAtStart ==
    [][(\E i \in 1..Len(tasks) : EstablishDone(i)) =>
           enc_packet_buffer = <<>>]_vars

\* The second attempt is subscribing for the key-exchange response while
\* the buffer holds the first part of a frame of the session before.
C28_Failure ==
    /\ frags = 1
    /\ enc_packet_buffer # <<>>
    /\ StartsWith(enc_packet_buffer, ENC_PREFIX)
    /\ \E i \in 1..Len(tasks) :
          /\ tasks[i].chain = [att |-> 2, trail |-> <<"KeyExchange">>]
          /\ tasks[i].pc = "start_notify"
          /\ tasks[i].next = "initBleSessionKeyHandler"

\* C29, as stated: once disconnect() was called on a Connection that has a
\* client or is acquiring one, and no connect() has set the retry flag again,
\* the connection does not come to rest without the disconnected event set
\* (waitDisconnect completes); and the event is set only while the link is
\* down.
C29_WaitDisconnect ==
    /\ (Quiescent /\ disconnects > 0 /\ ~retry_on_disconnect /\ hasClient)
           => disconnected_event
    /\ disconnected_event => ~link

\* After connect(), disconnect() and connect() again the connection is
\* Listening and the event of the disconnect is still set.
C29_Failure ==
    /\ calls = 2
    /\ disconnects = 1
    /\ drops = 0
    /\ disconnected_event
    /\ link
    /\ Listening
    /\ Quiescent

\* The coroutine t is the handler of an encrypted handshake response about
\* to read the first part of a message that the transport cut in two.
C30_FirstPart(t) ==
    /\ t.pc = "stop_notify"
    /\ t.handler \in {"getAuthStatusHandler", "autoAuthenticationHandler"}
    /\ ~t.whole
    /\ enc_packet_buffer = <<>>
    /\ StartsWith(t.data, ENC_PREFIX)
    /\ Len(t.data) = FragmentAt

\* C30, as stated: the handler of an encrypted handshake response that is
\* given the first part of a response cut in two keeps the part in the
\* buffer and does not abort the attempt: the handler stays subscribed for
\* the second part.
C30_PartialDoesNotAbort ==
    [][\A i \in 1..Len(tasks) :
          (C30_FirstPart(tasks[i]) /\ StopNotifyDone(i)) =>
              /\ enc_packet_buffer' = tasks[i].data
              /\ tasks[i].chain.att \notin aborted'
              /\ notify'.handler = tasks[i].handler]_vars

\* The auth-status response came in two parts: the attempt is aborted, the
\* first part is in the buffer, nothing is subscribed and the connection is
\* at rest without Listening.
C30_Failure ==
    /\ calls = 1
    /\ frags = 1
    /\ faults = 0
    /\ drops = 0
    /\ link
    /\ aborted = {1}
    /\ session_key = DevSessionKey
    /\ Len(enc_packet_buffer) = FragmentAt
    /\ notify = NoNotify
    /\ Quiescent
    /\ ~Listening

\* The coroutine t is getKeyInfoReqHandler about to read a response with the
\* tag 02 whose decrypted body carries a random value of 32 bytes or more
\* before the 2-byte seed.
C22_ExtendedRandom(t) ==
    /\ t.pc = "stop_notify"
    /\ t.handler = "getKeyInfoReqHandler"
    /\ parseSimple(t.data).ok
    /\ Len(parseSimple(t.data).data) >= 1
    /\ parseSimple(t.data).data[1] = 2
    /\ LET body == decrypt(shared_key, iv, SliceFrom(parseSimple(t.data).data, 1))
       IN  body.ok /\ Len(body.data) >= 32 + 2

\* C22, as stated: when the decrypted key-info response carries a random
\* value of 32 bytes or more, getKeyInfoReqHandler raises: the session key
\* is left as it was, the attempt is recorded as aborted and the coroutine
\* ends without AuthStatusRequested.
C22_ExtendedRandomFails ==
    [][\A i \in 1..Len(tasks) :
          (C22_ExtendedRandom(tasks[i]) /\ StopNotifyDone(i)) =>
              /\ session_key' = session_key
              /\ tasks[i].chain.att \in aborted'
              /\ tasks' = RemoveAt(tasks, i)]_vars

\* The device sent a 32-byte random value: the session key was derived from
\* its first 16 bytes, with bytes 16 and 17 of the value taken as the seed,
\* and the auth-status request is being written under that key.
C22_Failure ==
    /\ calls = 1
    /\ faults = 1
    /\ frags = 0
    /\ aborted = {}
    /\ session_key = genSessionKey(Slice(DevSRand32, 16, 18),
                                   Slice(DevSRand32, 0, 16)).key
    /\ session_key # DevSessionKey
    /\ \E i \in 1..Len(tasks) :
          /\ tasks[i].pc = "write"
          /\ tasks[i].next = "getAuthStatusHandler"
          /\ tasks[i].chain.trail = SubSeq(FullTrail, 1, 5)

\* The coroutine t is getAuthStatusHandler about to read recv_data, and
\* whether parseEncPackets returns at least one inner frame for it.
C23_Decodes(t) ==
    LET r == parseEncPackets(enc_packet_buffer, t.data, session_key, iv)
    IN  r.err = "" /\ Len(r.packets) >= 1

\* C23, as stated: getAuthStatusHandler goes on to write the credential
\* exactly when its response decodes to at least one inner frame; otherwise
\* the attempt is aborted, nothing stays subscribed and no coroutine of the
\* attempt is left that will write the credential.
C23_CredentialIffDecoded ==
    [][\A i \in 1..Len(tasks) :
          (/\ tasks[i].pc = "stop_notify"
           /\ tasks[i].handler = "getAuthStatusHandler"
           /\ StopNotifyDone(i)) =>
              IF C23_Decodes(tasks[i])
              THEN /\ Len(tasks') = Len(tasks)
                   /\ tasks'[Len(tasks')].chain.att = tasks[i].chain.att
                   /\ tasks'[Len(tasks')].pc = "start_notify"
                   /\ tasks'[Len(tasks')].next = "autoAuthenticationHandler"
                   /\ tasks'[Len(tasks')].send = autoAuthentication.data
              ELSE /\ tasks' = RemoveAt(tasks, i)
                   /\ tasks[i].chain.att \in aborted'
                   /\ notify' = NoNotify
                   /\ \A j \in 1..Len(tasks') :
                         tasks'[j].chain.att = tasks[i].chain.att =>
                             /\ tasks'[j].pc = "stop_notify"
                             /\ ~RunHandler(tasks'[j].handler,
                                            tasks'[j].data).ok]_vars

\* With two connect() calls under way, getAuthStatusHandler of the second
\* attempt has aborted on a late key-info response, and its second run, for
\* the auth-status response, is pending and will write the credential.
C23_Failure ==
    /\ calls = 2
    /\ faults = 0
    /\ frags = 0
    /\ aborted = {2}
    /\ notify = NoNotify
    /\ Len(tasks) = 1
    /\ tasks[1].pc = "stop_notify"
    /\ tasks[1].handler = "getAuthStatusHandler"
    /\ tasks[1].chain.att = 2
    /\ getAuthStatusHandler(tasks[1].data).ok

(***************************************************************************)
(* The payload length field of the inner frame                             *)
(***************************************************************************)

\* C31, as stated: when Packet.fromBytes returns a frame, its payload has as
\* many bytes as the payload length field of the header says (2 less when
\* the version is 19 and the payload ended with BB BB), and these bytes lie
\* before the two checksum bytes that end the input.
C31_PayloadLenHonoured ==
    (call.op = "Packet.fromBytes" /\ result # <<>>) =>
        LET d == call.data
            n == d[3] + 256 * d[4]
            stripped == /\ d[2] = 19
                        /\ n >= 2
                        /\ 18 + n <= Len(d)
                        /\ d[18 + n - 1] = 187
                        /\ d[18 + n] = 187
        IN  /\ Len(result[1].payload) = IF stripped THEN n - 2 ELSE n
            /\ 18 + n <= Len(d) - 2

\* A frame of version 2 whose length field says 3 for a payload of one byte:
\* fromBytes returned the payload byte followed by the two bytes of the
\* checksum.
C31_Failure ==
    /\ call.op = "Packet.fromBytes"
    /\ call.kind = "len+2"
    /\ call.pkt.version = 2
    /\ call.pkt.payload = <<5>>
    /\ call.data[3] = 3
    /\ Len(call.data) = 21
    /\ result # <<>>
    /\ result[1].payload = <<5, call.data[20], call.data[21]>>

(***************************************************************************)
(* The library specification: one call sequence from a fresh process.      *)
(***************************************************************************)
NextLib ==
    \/ \E payload \in Plains, enc_key \in {None, DevSessionKey},
          iv_ \in {None, ListeningKeys.iv}, rnd \in RandomIvs :
            EncodeCall(payload, enc_key, iv_, rnd)
    \/ DecodeCall
    \/ \E pkt \in Packets : ToBytesCall(pkt)
    \/ \E kind \in {"asis", "short", "cut", "prefix", "crc8", "crc16",
                     "len+2", "len+9"} :
            FromBytesCall(kind)
    \/ \E adv_data \in Adverts : NewDeviceCall(adv_data)
    \/ \E cb \in CallbackIds : RegisterCallback(cb)
    \/ \E cb \in CallbackIds : RemoveCallback(cb)
    \/ \E packet \in Messages : DataParse(packet)
    \/ \E curve_num \in (0..5) \cup {255} : EcdhTypeSizeCall(curve_num)
    \/ \E frame_type \in {FRAME_TYPE_COMMAND, FRAME_TYPE_PROTOCOL,
                           FRAME_TYPE_PROTOCOL_INT},
          payload \in Plains, keys \in BOOLEAN :
            EncodeTypeCall(frame_type, payload, keys)

SpecLib == Init /\ [][NextLib]_vars

=============================================================================
